---- MODULE Spec2Model ----
(***************************************************************************)
(* The G1 container readers of the repository: the sprite decoder of       *)
(* extract_rct2_sprites.py (G1DATExtractor and extract_terrain_sprites)    *)
(* and the one of extract_grass_simple.py (extract_sprite_simple and the   *)
(* script's main loop), run on byte containers drawn from a bounded        *)
(* family.                                                                 *)
(*                                                                         *)
(* A container is a length and its bytes; a byte that the family does not  *)
(* set is 0, so the descriptor table keeps the offsets the scripts use     *)
(* (sprite 3419 and up) without the model storing 55 000 zero bytes.       *)
(* A raster is its size and the pixels written so far; a pixel never       *)
(* written holds the fill colour of Image.new, (0, 0, 0, 0).               *)
(***************************************************************************)
EXTENDS Integers, Sequences, FiniteSets, TLC

VARIABLES file, prog, phase, num_entries, entries, pos, last, drv

vars == <<file, prog, phase, num_entries, entries, pos, last, drv>>

-----------------------------------------------------------------------------
(* Program constants.                                                      *)

\* RCT2_PALETTE of extract_rct2_sprites.py; PALETTE of extract_grass_simple.py
\* lists the same triples.
RCT2_PALETTE == <<
    <<0, 0, 0>>, <<0, 0, 0>>, <<0, 0, 0>>, <<0, 0, 0>>, <<0, 0, 0>>, <<0, 0, 0>>,
    <<0, 0, 0>>, <<0, 0, 0>>, <<0, 0, 0>>, <<0, 0, 0>>, <<35, 35, 23>>, <<51, 51, 35>>,
    <<67, 67, 47>>, <<83, 83, 63>>, <<99, 99, 75>>, <<115, 115, 91>>, <<131, 131, 111>>, <<151, 151, 131>>,
    <<175, 175, 159>>, <<195, 195, 183>>, <<219, 219, 211>>, <<243, 243, 239>>, <<0, 47, 51>>, <<0, 59, 63>>,
    <<11, 75, 79>>, <<19, 91, 91>>, <<31, 107, 107>>, <<43, 127, 119>>, <<59, 143, 135>>, <<79, 155, 147>>,
    <<95, 171, 159>>, <<115, 187, 171>>, <<135, 199, 183>>, <<159, 215, 195>>, <<183, 231, 211>>, <<207, 247, 227>>,
    <<227, 255, 239>>, <<0, 47, 111>>, <<0, 47, 159>>, <<0, 47, 203>>, <<0, 51, 255>>, <<0, 87, 255>>,
    <<0, 123, 255>>, <<0, 155, 255>>, <<0, 183, 255>>, <<0, 219, 255>>, <<0, 255, 255>>, <<11, 67, 35>>,
    <<15, 91, 47>>, <<19, 111, 63>>, <<23, 131, 75>>, <<31, 151, 87>>, <<39, 171, 99>>, <<51, 187, 115>>,
    <<63, 203, 131>>, <<75, 219, 147>>, <<91, 239, 167>>, <<111, 255, 183>>, <<43, 39, 27>>, <<55, 51, 39>>,
    <<67, 63, 51>>, <<83, 75, 67>>, <<95, 91, 83>>, <<111, 111, 103>>, <<127, 127, 123>>, <<143, 147, 143>>,
    <<159, 167, 163>>, <<179, 187, 183>>, <<199, 207, 203>>, <<219, 227, 223>>, <<0, 43, 0>>, <<0, 63, 0>>,
    <<7, 87, 0>>, <<15, 107, 7>>, <<19, 127, 15>>, <<27, 147, 19>>, <<35, 167, 31>>, <<43, 187, 39>>,
    <<55, 207, 51>>, <<67, 227, 67>>, <<83, 247, 87>>, <<15, 7, 0>>, <<27, 15, 0>>, <<43, 23, 0>>,
    <<55, 31, 0>>, <<67, 43, 0>>, <<83, 55, 0>>, <<99, 67, 7>>, <<115, 83, 15>>, <<131, 99, 23>>,
    <<147, 119, 35>>, <<163, 135, 47>>, <<183, 155, 63>>, <<195, 175, 83>>, <<207, 195, 103>>, <<223, 215, 127>>,
    <<239, 235, 159>>, <<255, 255, 195>>, <<111, 47, 0>>, <<131, 59, 0>>, <<151, 75, 0>>, <<175, 91, 0>>,
    <<191, 107, 7>>, <<215, 127, 19>>, <<235, 147, 35>>, <<255, 171, 51>>, <<255, 195, 75>>, <<255, 219, 103>>,
    <<255, 243, 139>>, <<255, 255, 179>>, <<75, 47, 11>>, <<95, 59, 23>>, <<115, 75, 35>>, <<135, 95, 51>>,
    <<159, 119, 67>>, <<179, 139, 87>>, <<199, 167, 111>>, <<219, 187, 139>>, <<239, 215, 167>>, <<255, 239, 199>>,
    <<255, 255, 227>>, <<51, 31, 0>>, <<63, 39, 0>>, <<79, 51, 0>>, <<95, 63, 7>>, <<111, 75, 15>>,
    <<131, 91, 27>>, <<151, 111, 43>>, <<171, 131, 59>>, <<191, 155, 79>>, <<207, 179, 99>>, <<227, 203, 123>>,
    <<247, 227, 147>>, <<255, 255, 183>>, <<255, 255, 219>>, <<255, 255, 255>>, <<107, 0, 0>>, <<127, 0, 0>>,
    <<151, 0, 0>>, <<171, 0, 0>>, <<191, 0, 0>>, <<215, 0, 0>>, <<239, 0, 0>>, <<255, 23, 23>>,
    <<255, 51, 51>>, <<255, 83, 83>>, <<255, 115, 115>>, <<255, 147, 147>>, <<255, 183, 183>>, <<255, 219, 219>>,
    <<255, 255, 255>>, <<35, 0, 0>>, <<59, 0, 0>>, <<79, 0, 0>>, <<103, 0, 0>>, <<123, 0, 0>>,
    <<143, 7, 7>>, <<163, 23, 23>>, <<183, 43, 43>>, <<203, 63, 63>>, <<223, 83, 83>>, <<239, 111, 111>>,
    <<255, 139, 139>>, <<255, 171, 171>>, <<255, 203, 203>>, <<255, 235, 235>>, <<255, 255, 255>>, <<59, 31, 11>>,
    <<75, 43, 19>>, <<91, 55, 31>>, <<107, 71, 43>>, <<127, 87, 59>>, <<143, 107, 75>>, <<163, 127, 95>>,
    <<179, 147, 115>>, <<199, 167, 135>>, <<215, 191, 155>>, <<235, 215, 179>>, <<255, 239, 207>>, <<95, 63, 23>>,
    <<115, 79, 39>>, <<135, 99, 55>>, <<155, 119, 67>>, <<175, 139, 83>>, <<195, 159, 99>>, <<219, 183, 119>>,
    <<239, 203, 139>>, <<255, 227, 163>>, <<255, 247, 191>>, <<255, 255, 223>>, <<99, 79, 43>>, <<119, 99, 59>>,
    <<143, 119, 75>>, <<163, 139, 95>>, <<187, 159, 115>>, <<207, 183, 135>>, <<227, 203, 159>>, <<251, 227, 183>>,
    <<255, 247, 207>>, <<255, 255, 235>>, <<111, 91, 63>>, <<131, 111, 83>>, <<151, 131, 103>>, <<175, 151, 127>>,
    <<199, 175, 147>>, <<219, 199, 171>>, <<243, 223, 195>>, <<255, 247, 223>>, <<255, 255, 247>>, <<0, 0, 0>>,
    <<0, 0, 0>>, <<0, 0, 0>>, <<0, 0, 0>>, <<0, 0, 0>>, <<0, 0, 0>>, <<0, 0, 0>>,
    <<0, 0, 0>>
>>

PALETTE == RCT2_PALETTE

\* header_offset = 4 + (index * 16)
G1HeaderBase == 4
\* header_offset = 8 + (sprite_idx * 16)
SimpleHeaderBase == 8
EntryStride == 16
\* row_offset == 0xFFFF
EmptyRow == 65535
\* grass_start = 3419 ; for slope_idx in range(19)
grass_start == 3419
GrassSlopes == 19

-----------------------------------------------------------------------------
(* Bytes, files and struct.unpack.                                         *)

\* struct.pack('<I' / '<H'): v in k little-endian bytes
LE(v, k) == [i \in 1..k |-> (v \div (256 ^ (i - 1))) % 256]

\* struct.unpack('<I' / '<H' / 'B'): little-endian unsigned
RECURSIVE UnpackU(_)
UnpackU(b) == IF b = <<>> THEN 0 ELSE b[1] + 256 * UnpackU(Tail(b))

\* a file position past the end of every container here; seeks to it and
\* to any position after it read nothing
FarOffset == 2 ^ 30

\* struct.unpack('<I') of an offset field: the value, or FarOffset for the
\* values from 2^30 on, which all lie past the end of the container and
\* which the 32-bit integers of the checker do not hold
UnpackU32(b) == IF b[4] >= 64 THEN FarOffset ELSE UnpackU(b)

\* struct.unpack('<h'): little-endian signed 16 bit
UnpackS16(b) == LET u == UnpackU(b) IN IF u >= 32768 THEN u - 65536 ELSE u

ByteAt(p) == IF p \in DOMAIN file.data THEN file.data[p] ELSE 0

\* f.read(k) with the cursor at p: the bytes that are there, at most k
FileRead(p, k) ==
    LET got == IF p >= file.len THEN 0
               ELSE IF p + k > file.len THEN file.len - p ELSE k
    IN  [i \in 1..got |-> ByteAt(p + i - 1)]

-----------------------------------------------------------------------------
(* One call of a decoder: the file cursor, the raster's pixels, the        *)
(* exception in flight, and a record of what the call did to the file      *)
(* (io), to the raster (wr, and wlog in order), with the exceptions it      *)
(* swallowed (caught), and the runs it went through (runs).                *)
(* The operators below take the value of each Python local as a parameter. *)

NoExc == "none"
\* struct.unpack on fewer bytes than the format asks for
ErrUnpack == "struct.error: unpack requires a buffer"
\* f.read(1)[0] at the end of the file
ErrEOF == "IndexError: index out of range"
\* PALETTE[palette_idx] past the end of the list
ErrPalette == "IndexError: list index out of range"
\* pixels[x, y] = ... outside the image
ErrImage == "IndexError: image index out of range"

NewCall(p) ==
    [pos |-> p, size |-> <<>>, px |-> <<>>, wr |-> {}, skip |-> {}, io |-> <<>>,
     exc |-> NoExc, caught |-> {}, buf |-> <<>>, x |-> 0, wlog |-> <<>>,
     runs |-> <<>>]

\* f.seek(p)
Seek(m, p, why, row) ==
    [m EXCEPT !.pos = p,
              !.io = Append(@, [op |-> "seek", at |-> p, n |-> 0,
                                why |-> why, row |-> row])]

\* f.read(k): the bytes go to buf, the cursor moves past them
ReadN(m, k, why, row) ==
    [m EXCEPT !.pos = @ + Len(FileRead(m.pos, k)),
              !.buf = FileRead(m.pos, k),
              !.io = Append(@, [op |-> "read", at |-> m.pos, n |-> k,
                                why |-> why, row |-> row])]

Raise(m, e) == [m EXCEPT !.exc = e]

\* Image.new with the two sizes exchanged
NewImageSwapped(m, w, h) == [m EXCEPT !.size = <<h, w>>]

\* img = Image.new('RGBA', (w, h), (0, 0, 0, 0)); pixels = img.load()
NewImage(m, w, h) == [m EXCEPT !.size = <<w, h>>]

\* the pixel store that leaves the alpha of the fill colour
PutPixelNoAlpha(m, x, y, color) ==
    IF x >= 0 /\ x < m.size[1] /\ y >= 0 /\ y < m.size[2]
    THEN [m EXCEPT !.px = (<<x, y>> :> <<color[1], color[2], color[3], 0>>) @@ @,
                   !.wr = @ \cup {<<x, y>>}, !.wlog = Append(@, <<x, y>>)]
    ELSE [m EXCEPT !.exc = ErrImage, !.wr = @ \cup {<<x, y>>},
                   !.wlog = Append(@, <<x, y>>)]

\* pixels[x, y] = (*color, 255)
PutPixel(m, x, y, color) ==
    IF x >= 0 /\ x < m.size[1] /\ y >= 0 /\ y < m.size[2]
    THEN [m EXCEPT !.px = (<<x, y>> :> <<color[1], color[2], color[3], 255>>) @@ @,
                   !.wr = @ \cup {<<x, y>>}, !.wlog = Append(@, <<x, y>>)]
    ELSE [m EXCEPT !.exc = ErrImage, !.wr = @ \cup {<<x, y>>},
                   !.wlog = Append(@, <<x, y>>)]

\* an iteration of a pixel loop whose "if" on the position is false
Skip(m, x, y) == [m EXCEPT !.skip = @ \cup {<<x, y>>}]

\* one run of a row, noted when the decoder is through with it (d): its
\* header byte hdr read at position at; x0 the x cursor (the start position
\* in extract_sprite_simple) before it and x1 after it; after the file cursor
\* it leaves; io0..io1 and w0..w1 what it added to io and wlog after its
\* header (r: the call when the header was read)
LogRun(d, r, row, at, hdr, x0, x1) ==
    [d EXCEPT !.runs = Append(@, [row |-> row, at |-> at, hdr |-> hdr,
                                  x0 |-> x0, x1 |-> x1, after |-> d.pos,
                                  io0 |-> Len(r.io), io1 |-> Len(d.io),
                                  w0 |-> Len(r.wlog), w1 |-> Len(d.wlog),
                                  exc |-> d.exc])]

\* struct.unpack on the k bytes asked of f.read: a short read raises
\* struct.error, a full one adds the bytes to acc
Unpacked(r, k, acc) ==
    IF Len(r.buf) # k THEN [m |-> Raise(r, ErrUnpack), vals |-> acc]
    ELSE [m |-> r, vals |-> Append(acc, r.buf)]

\* a run of struct.unpack(fmt, f.read(k)) statements, up to the first that
\* raises
RECURSIVE ReadFields(_, _)
ReadFields(s, sizes) ==
    IF sizes = <<>> \/ s.m.exc # NoExc THEN s
    ELSE ReadFields(Unpacked(ReadN(s.m, Head(sizes), "hdr", -1), Head(sizes),
                             s.vals),
                    Tail(sizes))

\* the entry of a call that parsed no descriptor
NoEntry == [parsed |-> FALSE]

\* what a call hands back (ret: "img", "None" or "raise"; px: the pixels of the
\* image returned), with what it did: the image it allocated (size), the
\* exception that ended it (exc)
Outcome(index, ret, entry, m) ==
    [index |-> index, ret |-> ret, entry |-> entry, exc |-> m.exc,
     caught |-> m.caught, size |-> m.size,
     px |-> IF ret = "img" THEN m.px ELSE <<>>, wr |-> m.wr, skip |-> m.skip,
     io |-> m.io, wlog |-> m.wlog, runs |-> m.runs]

-----------------------------------------------------------------------------
(* extract_rct2_sprites.py                                                 *)

\* the dict with the second and third field read exchanged
G1EntrySwapped(s) ==
    [m |-> s.m,
     entry |-> IF s.m.exc # NoExc THEN NoEntry
               ELSE [offset   |-> UnpackU32(s.vals[1]),
                     width    |-> UnpackU(s.vals[3]),
                     height   |-> UnpackU(s.vals[2]),
                     x_offset |-> UnpackS16(s.vals[4]),
                     y_offset |-> UnpackS16(s.vals[5]),
                     flags    |-> UnpackU(s.vals[6])]]

\* G1DATExtractor._read_entry_header: the dict it returns, s the reads done
G1Entry(s) ==
    [m |-> s.m,
     entry |-> IF s.m.exc # NoExc THEN NoEntry
               ELSE [offset   |-> UnpackU32(s.vals[1]),
                     width    |-> UnpackU(s.vals[2]),
                     height   |-> UnpackU(s.vals[3]),
                     x_offset |-> UnpackS16(s.vals[4]),
                     y_offset |-> UnpackS16(s.vals[5]),
                     flags    |-> UnpackU(s.vals[6])]]

\* G1DATExtractor._read_entry_header
G1ReadEntryHeader(m) ==
    G1Entry(ReadFields([m |-> m, vals |-> <<>>], <<4, 2, 2, 2, 2, 2>>))

\* the pixel store that writes every row's pixels into row 0
G1PutPixelTopRow(r, entry, row) ==
    IF Len(r.buf) = 0 THEN Raise(r, ErrEOF)
    ELSE IF r.buf[1] >= Len(RCT2_PALETTE) THEN Raise(r, ErrPalette)
    ELSE [PutPixel(r, r.x, 0, RCT2_PALETTE[r.buf[1] + 1]) EXCEPT !.x = @ + 1]

\* palette_index = self.file.read(1)[0]; color = RCT2_PALETTE[palette_index];
\* pixels[x, row] = (*color, 255); x += 1   (r: the read done)
G1PutPixel(r, entry, row) ==
    IF Len(r.buf) = 0 THEN Raise(r, ErrEOF)
    ELSE IF r.buf[1] >= Len(RCT2_PALETTE) THEN Raise(r, ErrPalette)
    ELSE [PutPixel(r, r.x, row, RCT2_PALETTE[r.buf[1] + 1]) EXCEPT !.x = @ + 1]

\* the pixel loop without its "if x < entry['width']"
RECURSIVE G1PixelsNoClip(_, _, _, _)
G1PixelsNoClip(m, entry, row, k) ==
    IF k = 0 \/ m.exc # NoExc THEN m
    ELSE G1PixelsNoClip(G1PutPixel(ReadN(m, 1, "pix", row), entry, row),
                        entry, row, k - 1)

\* for _ in range(num_pixels): if x < entry['width']: ... (k iterations left)
RECURSIVE G1Pixels(_, _, _, _)
G1Pixels(m, entry, row, k) ==
    IF k = 0 \/ m.exc # NoExc THEN m
    ELSE IF m.x < entry.width
         THEN G1Pixels(G1PutPixel(ReadN(m, 1, "pix", row), entry, row),
                       entry, row, k - 1)
         ELSE G1Pixels(Skip(m, m.x, row), entry, row, k - 1)

\* chunk_info = self.file.read(1)[0] and the if/else on chunk_info & 0x80
\* (r: the read done)
\* the if/else on chunk_info & 0x80 (r: the read of chunk_info done)
G1Run(r, entry, row) ==
    IF r.buf[1] >= 128 THEN [r EXCEPT !.x = @ + (r.buf[1] % 128)]
    ELSE G1Pixels(r, entry, row, r.buf[1])

\* the end of an iteration of the while loop (d: the run done)
G1RunDone(d, r, row) == LogRun(d, r, row, r.pos - 1, r.buf[1], r.x, d.x)

\* the chunk with every header taken for an opaque run of its low 7 bits
G1ChunkAllOpaque(r, entry, row) ==
    IF Len(r.buf) = 0 THEN Raise(r, ErrEOF)
    ELSE G1RunDone(G1Pixels(r, entry, row, r.buf[1] % 128), r, row)

G1Chunk(r, entry, row) ==
    IF Len(r.buf) = 0 THEN Raise(r, ErrEOF)
    ELSE G1RunDone(G1Run(r, entry, row), r, row)

\* while x < entry['width']: one chunk per iteration
RECURSIVE G1RowLoop(_, _, _)
G1RowLoop(m, entry, row) ==
    IF m.exc # NoExc \/ ~(m.x < entry.width) THEN m
    ELSE G1RowLoop(G1Chunk(ReadN(m, 1, "chunk", row), entry, row), entry, row)

\* the end of a row that leaves the cursor behind the row's payload
G1NoRestore(d, saved_pos, row) == d

\* self.file.seek(saved_pos), reached when the row raised nothing
G1Restore(d, saved_pos, row) ==
    IF d.exc # NoExc THEN d ELSE Seek(d, saved_pos, "restore", row)

\* one iteration of "for row in range(entry['height'])" from the unpack of
\* row_offset on (r: the read of the row offset done)
G1Row(r, entry, row) ==
    IF Len(r.buf) # 2 THEN Raise(r, ErrUnpack)
    ELSE IF UnpackU(r.buf) = EmptyRow THEN r
    ELSE G1Restore(G1RowLoop(Seek(r, entry.offset + UnpackU(r.buf), "row", row),
                             entry, row),
                   r.pos, row)

\* for row in range(entry['height']): the body of the try block
RECURSIVE G1Rows(_, _, _)
G1Rows(m, entry, row) ==
    IF m.exc # NoExc \/ row >= entry.height THEN m
    ELSE G1Rows(G1Row(ReadN([m EXCEPT !.x = 0], 2, "rowoff", row), entry, row),
                entry, row + 1)

\* except Exception: return None, else return img (d: the try block done)
G1Return(index, entry, d) ==
    [out |-> Outcome(index, IF d.exc # NoExc THEN "None" ELSE "img", entry, d),
     pos |-> d.pos]

\* the call without its seek to the sprite's data
G1DecodeNoSeek(index, entry, m) ==
    IF entry.width = 0 \/ entry.height = 0
    THEN [out |-> Outcome(index, "None", entry, m), pos |-> m.pos]
    ELSE G1Return(index, entry,
                  G1Rows(NewImage(m, entry.width, entry.height), entry, 0))

\* G1DATExtractor.extract_sprite from "entry = self.entries[index]" on
G1Decode(index, entry, m) ==
    IF entry.width = 0 \/ entry.height = 0
    THEN [out |-> Outcome(index, "None", entry, m), pos |-> m.pos]
    ELSE G1Return(index, entry,
                  G1Rows(NewImage(Seek(m, entry.offset, "data", -1),
                                  entry.width, entry.height),
                         entry, 0))

WithEntries(r, e) == [out |-> r.out, pos |-> r.pos, entries |-> e]

\* the store that makes self.entries hold the latest descriptor only
G1CacheEvicting(index, h) ==
    IF h.m.exc # NoExc
    THEN [out |-> Outcome(index, "raise", NoEntry, h.m), pos |-> h.m.pos,
          entries |-> entries]
    ELSE WithEntries(G1Decode(index, h.entry, h.m), (index :> h.entry))

\* self.entries[index] = self._read_entry_header() and the rest of the call
\* (h: the header read done)
G1Cache(index, h) ==
    IF h.m.exc # NoExc
    THEN [out |-> Outcome(index, "raise", NoEntry, h.m), pos |-> h.m.pos,
          entries |-> entries]
    ELSE WithEntries(G1Decode(index, h.entry, h.m),
                     (index :> h.entry) @@ entries)

\* G1DATExtractor.extract_sprite(index): the outcome, the cursor and the
\* cache it leaves
extract_sprite(index) ==
    IF index >= num_entries
    THEN [out |-> Outcome(index, "None", NoEntry, NewCall(pos)), pos |-> pos,
          entries |-> entries]
    ELSE IF index \in DOMAIN entries
    THEN WithEntries(G1Decode(index, entries[index], NewCall(pos)), entries)
    ELSE G1Cache(index,
                 G1ReadEntryHeader(
                     Seek(NewCall(pos), G1HeaderBase + (index * EntryStride),
                          "hdr", -1)))

-----------------------------------------------------------------------------
(* extract_grass_simple.py                                                 *)

\* read_entry_header(f): the dict it returns, s the reads done
SimpleEntry(s) ==
    [m |-> s.m,
     entry |-> IF s.m.exc # NoExc THEN NoEntry
               ELSE [offset   |-> UnpackU32(s.vals[1]),
                     width    |-> UnpackS16(SubSeq(s.vals[2], 1, 2)),
                     height   |-> UnpackS16(SubSeq(s.vals[2], 3, 4)),
                     x_offset |-> UnpackS16(SubSeq(s.vals[3], 1, 2)),
                     y_offset |-> UnpackS16(SubSeq(s.vals[3], 3, 4)),
                     flags    |-> UnpackU(s.vals[4])]]

\* read_entry_header(f)
read_entry_header(m) ==
    SimpleEntry(ReadFields([m |-> m, vals |-> <<>>], <<4, 4, 4, 2, 2>>))

\* palette_idx = f.read(1)[0]; color = PALETTE[palette_idx];
\* pixels[x_pos, row_num] = (*color, 255)   (r: the read done)
SimplePutPixel(r, entry, row_num, x_pos) ==
    IF Len(r.buf) = 0 THEN Raise(r, ErrEOF)
    ELSE IF r.buf[1] >= Len(PALETTE) THEN Raise(r, ErrPalette)
    ELSE PutPixel(r, x_pos, row_num, PALETTE[r.buf[1] + 1])

\* for i in range(data_size): the iterations from i on
RECURSIVE SimplePixels(_, _, _, _, _, _)
SimplePixels(m, entry, row_num, first_pixel_x, i, data_size) ==
    IF i >= data_size \/ m.exc # NoExc THEN m
    ELSE IF 0 <= first_pixel_x + i /\ first_pixel_x + i < entry.width
         THEN SimplePixels(
                  SimplePutPixel(ReadN(m, 1, "pix", row_num), entry, row_num,
                                 first_pixel_x + i),
                  entry, row_num, first_pixel_x, i + 1, data_size)
         ELSE SimplePixels(Skip(m, first_pixel_x + i, row_num), entry, row_num,
                           first_pixel_x, i + 1, data_size)

RECURSIVE SimpleRowLoop(_, _, _)

\* the end of the pixel loop (d: the loop done, r2: the read of
\* first_pixel_x done)
SimpleRunDone(d, r2, data_size, row_num) ==
    LogRun(d, r2, row_num, r2.pos - 2, data_size, r2.buf[1],
           r2.buf[1] + (data_size % 128))

\* the iteration that does not look at is_end_of_line
SimpleChunkEndNoFlag(p, is_end_of_line, entry, row_num) ==
    IF p.exc # NoExc THEN p ELSE SimpleRowLoop(p, entry, row_num)

\* if is_end_of_line: break, else the next iteration (p: the pixel loop done)
SimpleChunkEnd(p, is_end_of_line, entry, row_num) ==
    IF p.exc # NoExc \/ is_end_of_line THEN p
    ELSE SimpleRowLoop(p, entry, row_num)

\* first_pixel_x = f.read(1)[0] and the rest of the iteration (r2: that read
\* done, data_size: the byte read before it)
SimpleChunk(r2, data_size, entry, row_num) ==
    IF Len(r2.buf) = 0 THEN Raise(r2, ErrEOF)
    ELSE SimpleChunkEnd(
             SimpleRunDone(
                 SimplePixels(r2, entry, row_num, r2.buf[1], 0, data_size % 128),
                 r2, data_size, row_num),
             data_size >= 128, entry, row_num)

\* data_size = f.read(1)[0]   (r1: the read done)
SimpleChunkHeader(r1, entry, row_num) ==
    IF Len(r1.buf) = 0 THEN Raise(r1, ErrEOF)
    ELSE SimpleChunk(ReadN(r1, 1, "startx", row_num), r1.buf[1], entry, row_num)

\* while True: try: ... one chunk per iteration; leaves with the exception
\* that the bare except swallows, if any
SimpleRowLoop(m, entry, row_num) ==
    SimpleChunkHeader(ReadN(m, 1, "chunk", row_num), entry, row_num)

\* except: break   (d: the while loop left)
SimpleExcept(d, row_num) ==
    IF d.exc = NoExc THEN d
    ELSE [d EXCEPT !.exc = NoExc, !.caught = @ \cup {<<row_num, d.exc>>}]

\* for _ in range(entry['height']): offset = struct.unpack('<H', f.read(2))
RECURSIVE SimpleRowOffsets(_, _)
SimpleRowOffsets(s, k) ==
    IF k = 0 \/ s.m.exc # NoExc THEN s
    ELSE SimpleRowOffsets(
             Unpacked(ReadN(s.m, 2, "rowoff", Len(s.vals)), 2, s.vals), k - 1)

\* the row loop leaving at the first row whose stream raised
RECURSIVE SimpleRowsStop(_, _, _, _)
SimpleRowsStop(m, entry, row_offsets, row_num) ==
    IF row_num >= Len(row_offsets) \/ m.caught # {} THEN m
    ELSE IF row_offsets[row_num + 1] = 0 \/ row_offsets[row_num + 1] = EmptyRow
         THEN SimpleRowsStop(m, entry, row_offsets, row_num + 1)
         ELSE SimpleRowsStop(
                  SimpleExcept(
                      SimpleRowLoop(
                          Seek(m, entry.offset + row_offsets[row_num + 1],
                               "row", row_num),
                          entry, row_num),
                      row_num),
                  entry, row_offsets, row_num + 1)

\* the row loop with 0xFFFF as its only empty-row value
RECURSIVE SimpleRowsOneSentinel(_, _, _, _)
SimpleRowsOneSentinel(m, entry, row_offsets, row_num) ==
    IF row_num >= Len(row_offsets) THEN m
    ELSE IF row_offsets[row_num + 1] = EmptyRow
         THEN SimpleRowsOneSentinel(m, entry, row_offsets, row_num + 1)
         ELSE SimpleRowsOneSentinel(
                  SimpleExcept(
                      SimpleRowLoop(
                          Seek(m, entry.offset + row_offsets[row_num + 1],
                               "row", row_num),
                          entry, row_num),
                      row_num),
                  entry, row_offsets, row_num + 1)

\* for row_num, row_offset in enumerate(row_offsets): the rows from row_num on
RECURSIVE SimpleRows(_, _, _, _)
SimpleRows(m, entry, row_offsets, row_num) ==
    IF row_num >= Len(row_offsets) THEN m
    ELSE IF row_offsets[row_num + 1] = 0 \/ row_offsets[row_num + 1] = EmptyRow
         THEN SimpleRows(m, entry, row_offsets, row_num + 1)
         ELSE SimpleRows(
                  SimpleExcept(
                      SimpleRowLoop(
                          Seek(m, entry.offset + row_offsets[row_num + 1],
                               "row", row_num),
                          entry, row_num),
                      row_num),
                  entry, row_offsets, row_num + 1)

SimpleReturn(index, entry, d) ==
    [out |-> Outcome(index, "img", entry, d), pos |-> d.pos]

\* extract_sprite_simple from "for row_num, row_offset in enumerate" on
\* (t: the row offsets read, as bytes)
SimpleDecodeRows(index, entry, t) ==
    IF t.m.exc # NoExc
    THEN [out |-> Outcome(index, "raise", entry, t.m), pos |-> t.m.pos]
    ELSE SimpleReturn(index, entry,
                      SimpleRows(t.m, entry,
                                 [r \in 1..Len(t.vals) |-> UnpackU(t.vals[r])], 0))

\* extract_sprite_simple(f, entry)
extract_sprite_simple(index, entry, m) ==
    IF entry.width <= 0 \/ entry.height <= 0
    THEN [out |-> Outcome(index, "None", entry, m), pos |-> m.pos]
    ELSE SimpleDecodeRows(index, entry,
             SimpleRowOffsets(
                 [m |-> Seek(NewImage(m, entry.width, entry.height),
                             entry.offset, "data", -1),
                  vals |-> <<>>], entry.height))

\* entry = read_entry_header(f); img = extract_sprite_simple(f, entry)
\* (h: the header read done)
GrassEntry(sprite_idx, h) ==
    IF h.m.exc # NoExc
    THEN [out |-> Outcome(sprite_idx, "raise", NoEntry, h.m), pos |-> h.m.pos]
    ELSE extract_sprite_simple(sprite_idx, h.entry, h.m)

\* the body of "for slope_idx in range(19)" up to "img = ..."
GrassDecode(sprite_idx) ==
    GrassEntry(sprite_idx,
               read_entry_header(
                   Seek(NewCall(pos), SimpleHeaderBase + (sprite_idx * EntryStride),
                        "hdr", -1)))

\* terrain_ranges of extract_terrain_sprites, in the dict's order
terrain_ranges ==
    << [terrain |-> "grass",       start |-> 3419, end |-> 3437],
       [terrain |-> "sand",        start |-> 3438, end |-> 3456],
       [terrain |-> "dirt",        start |-> 3457, end |-> 3475],
       [terrain |-> "stone",       start |-> 3476, end |-> 3494],
       [terrain |-> "grass_dark",  start |-> 3495, end |-> 3513],
       [terrain |-> "grass_light", start |-> 3514, end |-> 3532] >>

-----------------------------------------------------------------------------
(* The containers the runs start from.  Sprite A (index 3419) varies: its  *)
(* size, its row-offset table, its row payload, and where the file ends.   *)
(* Sprite B (index 3420), when the count header declares it, is an intact  *)
(* 1 by 1 sprite whose data lies before A's, so that a file cut inside A   *)
(* leaves B whole.                                                         *)

\* the longest row payload of sprite A, in bytes
MaxPayload == 3
\* the longest row payload of sprite A in the runs of the batch drivers
MaxBatchPayload == 1

SpriteA == grass_start
SpriteB == grass_start + 1

\* payload bytes of sprite A for extract_sprite: as a chunk header 0 and 2
\* are opaque runs, 129 and 217 transparent ones; as a palette index 217 is
\* the first that RCT2_PALETTE does not hold
G1Bytes == {0, 2, 129, 217}
\* payload bytes of sprite A for extract_sprite_simple: as a run header 0 and
\* 1 have no end-of-row flag, 129 and 217 have it; as a start position 129
\* and 217 lie right of every raster here; as a palette index 217 is the
\* first that PALETTE does not hold
SimpleBytes == {0, 1, 129, 217}
\* the widths and heights of sprite A when it has pixels
Widths == {2}
Heights == {1, 2}
RowOffChoices(h) == {0, EmptyRow, 2 * h, (2 * h) + 1}

RECURSIVE Flatten(_)
Flatten(ss) == IF ss = <<>> THEN <<>> ELSE Head(ss) \o Flatten(Tail(ss))

SeqsUpTo(S, k) == UNION {[1..j -> S] : j \in 0..k}

\* the data of sprite A: a row-offset table and a payload, or a table cut short
AData(h, alphabet, maxPayload) ==
    {Flatten([r \in 1..h |-> LE(t[r], 2)]) \o p :
        t \in [1..h -> RowOffChoices(h)], p \in SeqsUpTo(alphabet, maxPayload)}
    \cup {SubSeq(Flatten([r \in 1..h |-> LE(2 * h, 2)]), 1, k) : k \in 0..((2 * h) - 1)}

Descriptor(offset, w, h) ==
    LE(offset, 4) \o LE(w, 2) \o LE(h, 2) \o LE(0, 2) \o LE(0, 2) \o LE(0, 2)
    \o LE(0, 2)

Put(data, p, bytes) ==
    [q \in p..(p + Len(bytes) - 1) |-> bytes[q - p + 1]] @@ data

\* sprite B's data: one row, one opaque run of palette index 10
IntactB(base) ==
    IF base = G1HeaderBase THEN <<2, 0, 1, 10>> ELSE <<2, 0, 129, 0, 10>>

\* a container of n entries with sprite A at index first and, when n has
\* room for it, sprite B after it
ContainerAt(base, first, n, w, h, adata) ==
    LET D     == base + (EntryStride * n)
        bdata == IF n > first + 1 THEN IntactB(base) ELSE <<>>
        aoff  == D + Len(bdata)
        t0    == Put(<<>>, 0, LE(n, 4))
        t1    == Put(t0, base + (EntryStride * first), Descriptor(aoff, w, h))
        t2    == IF n > first + 1
                 THEN Put(t1, base + (EntryStride * (first + 1)),
                          Descriptor(D, 1, 1))
                 ELSE t1
    IN  [len  |-> aoff + Len(adata),
         data |-> Put(Put(t2, D, bdata), aoff, adata)]

Container(base, n, w, h, adata) == ContainerAt(base, SpriteA, n, w, h, adata)

\* a container that ends inside the descriptor table, cut bytes into sprite
\* A's descriptor
CutInTable(base, n, cut) ==
    LET c == Container(base, n, 2, 1, <<>>)
    IN  [len |-> base + (EntryStride * SpriteA) + cut,
         data |-> [q \in {q \in DOMAIN c.data :
                             q < base + (EntryStride * SpriteA) + cut}
                     |-> c.data[q]]]

\* the synthetic container of the spec's round trip: a 4 by 2 sprite, row 0
\* one opaque run of palette indices 5 and 9 at x = 1, row 1 empty (in the
\* container of extract_sprite_simple the run has the end-of-row flag and the
\* bytes of one more run follow it)
Example(base) ==
    Container(base, SpriteB + 1, 4, 2,
              IF base = G1HeaderBase THEN <<4, 0, 255, 255, 129, 2, 5, 9, 129>>
              ELSE <<4, 0, 255, 255, 130, 1, 5, 9, 1, 0, 7>>)

\* a width or height field with every bit set: 65535 as '<H', -1 as '<h'
TopBit == EmptyRow

Containers(base, counts, alphabet, maxPayload) ==
    {Container(base, n, w, h, a) :
        n \in counts, w \in Widths, h \in {0}, a \in {<<>>}}
    \cup {Container(base, n, 0, 1, <<>>) : n \in counts}
    \cup UNION {{Container(base, n, w, h, a) : a \in AData(h, alphabet, maxPayload)} :
                   n \in counts, w \in Widths, h \in Heights}
    \cup {CutInTable(base, n, cut) : n \in counts, cut \in {6, EntryStride + 6}}
    \cup {Container(base, n, TopBit, 1, <<2, 0, 129>>) : n \in counts}
    \cup {Container(base, n, 2, TopBit, <<>>) : n \in counts}

-----------------------------------------------------------------------------
(* The state machine.                                                      *)
(*   prog   which client runs: "rct2_api" is any caller of G1DATExtractor, *)
(*          "rct2_main" is extract_terrain_sprites, "grass_main" is the    *)
(*          script extract_grass_simple.py                                 *)
(*   phase  "new" before the container is opened, "open" after,            *)
(*          "crashed" when an exception left the program                   *)
(*   num_entries, entries, pos   G1DATExtractor's fields and its file's    *)
(*          cursor (the script's f and num_entries in "grass_main");       *)
(*          entries holds the indices whose slot is not None               *)
(*   last   the outcome of the latest decode call                          *)
(*   drv    the batch driver's loop: where it stands and what it saved     *)

\* the indices a caller of extract_sprite asks for: sprite A, sprite B and
\* the first index past them
Requests == {SpriteA, SpriteB, SpriteB + 1}

NoCall ==
    [index |-> -1, ret |-> "none", entry |-> NoEntry, exc |-> NoExc,
     caught |-> {}, size |-> <<>>, px |-> <<>>, wr |-> {}, skip |-> {},
     io |-> <<>>, wlog |-> <<>>, runs |-> <<>>]

Idle == [pc |-> "idle", t |-> 0, k |-> 0, log |-> <<>>]

Init ==
    /\ prog \in {"rct2_api", "rct2_main", "grass_main"}
    /\ file \in
         CASE prog = "rct2_api" ->
                  Containers(G1HeaderBase, {SpriteB + 1}, G1Bytes, MaxPayload)
                  \cup {Example(G1HeaderBase)}
           [] prog = "rct2_main" ->
                  Containers(G1HeaderBase, {SpriteB + 1}, G1Bytes,
                             MaxBatchPayload)
           [] prog = "grass_main" ->
                  Containers(SimpleHeaderBase, {SpriteB + 1}, SimpleBytes,
                             MaxPayload)
                  \cup Containers(SimpleHeaderBase, {grass_start + GrassSlopes},
                                  SimpleBytes, MaxBatchPayload)
                  \cup {Example(SimpleHeaderBase)}
    /\ phase = "new"
    /\ num_entries = 0
    /\ entries = <<>>
    /\ pos = 0
    /\ last = NoCall
    /\ drv = Idle

\* G1DATExtractor.open
Open ==
    /\ prog \in {"rct2_api", "rct2_main"}
    /\ phase = "new"
    /\ \E r \in {ReadN(NewCall(0), 4, "count", -1)} :
           IF Len(r.buf) # 4
           THEN /\ phase' = "crashed"
                /\ pos' = r.pos
                /\ UNCHANGED <<num_entries, entries, drv>>
           ELSE /\ phase' = "open"
                /\ pos' = r.pos
                /\ num_entries' = UnpackU(r.buf)
                /\ entries' = <<>>
                /\ drv' = IF prog = "rct2_main"
                          THEN [pc |-> "loop", t |-> 1, k |-> 0, log |-> <<>>,
                                slope_index |-> 0]
                          ELSE drv
    /\ UNCHANGED <<file, prog, last>>

\* a caller's extractor.extract_sprite(index)
ExtractSprite(index) ==
    /\ prog = "rct2_api"
    /\ phase = "open"
    /\ \E r \in {extract_sprite(index)} :
           /\ last' = r.out
           /\ pos' = r.pos
           /\ entries' = r.entries
    /\ UNCHANGED <<file, prog, phase, num_entries, drv>>

\* filename = f"slope_{slope_index:02d}.png"; img.save(filepath) when img is
\* not None, the "Failed to extract" line otherwise
LogEntry(sprite_index, terrain, slope_index, out) ==
    [sprite |-> sprite_index, terrain |-> terrain, slope |-> slope_index,
     report |-> IF out.ret = "img" THEN "saved" ELSE "failed"]

\* the counter that moves on only when a sprite was saved
NextSlopeOnSave(slope_index, out) ==
    IF out.ret = "img" THEN slope_index + 1 ELSE slope_index

\* slope_index += 1, after the if/else on img
NextSlope(slope_index, out) == slope_index + 1

\* extract_terrain_sprites: one iteration of "for sprite_index in
\* range(start, end + 1)", with the step to the next terrain after the last
\* (drv.k counts the iterations of the inner loop: sprite_index = start + k)
TerrainStep ==
    /\ prog = "rct2_main"
    /\ phase = "open"
    /\ drv.pc = "loop"
    /\ \E range \in {terrain_ranges[drv.t]} :
       \E r \in {extract_sprite(range.start + drv.k)} :
       \E entry \in {LogEntry(range.start + drv.k, range.terrain,
                               drv.slope_index, r.out)} :
           /\ last' = r.out
           /\ pos' = r.pos
           /\ entries' = r.entries
           /\ IF r.out.ret = "raise"
              THEN /\ drv' = [drv EXCEPT !.pc = "aborted"]
                   /\ phase' = "crashed"
              ELSE /\ phase' = phase
                   /\ drv' =
                        IF range.start + drv.k < range.end
                        THEN [drv EXCEPT !.k = @ + 1, !.log = Append(@, entry),
                                         !.slope_index = NextSlope(@, r.out)]
                        ELSE IF drv.t < Len(terrain_ranges)
                        THEN [drv EXCEPT !.t = @ + 1, !.k = 0,
                                         !.log = Append(@, entry),
                                         !.slope_index = 0]
                        ELSE [drv EXCEPT !.pc = "done", !.log = Append(@, entry),
                                         !.slope_index = NextSlope(@, r.out)]
    /\ UNCHANGED <<file, prog, num_entries>>

\* extract_grass_simple.py: open(g1dat_path, 'rb') and read_g1_header(f)
GrassOpen ==
    /\ prog = "grass_main"
    /\ phase = "new"
    /\ \E r \in {ReadN(NewCall(0), 8, "count", -1)} :
           IF Len(r.buf) # 8
           THEN /\ phase' = "crashed"
                /\ pos' = r.pos
                /\ UNCHANGED <<num_entries, drv>>
           ELSE /\ phase' = "open"
                /\ pos' = r.pos
                /\ num_entries' = UnpackU(SubSeq(r.buf, 1, 4))
                /\ drv' = [pc |-> "loop", t |-> 1, k |-> 0, log |-> <<>>]
    /\ UNCHANGED <<file, prog, entries, last>>

\* extract_grass_simple.py: one iteration of "for slope_idx in range(19)"
GrassStep ==
    /\ prog = "grass_main"
    /\ phase = "open"
    /\ drv.pc = "loop"
    /\ \E r \in {GrassDecode(grass_start + drv.k)} :
       \E entry \in {LogEntry(grass_start + drv.k, "grass", drv.k, r.out)} :
           /\ last' = r.out
           /\ pos' = r.pos
           /\ IF r.out.ret = "raise"
              THEN /\ drv' = [drv EXCEPT !.pc = "aborted"]
                   /\ phase' = "crashed"
              ELSE /\ phase' = phase
                   /\ drv' =
                        IF drv.k + 1 < GrassSlopes
                        THEN [drv EXCEPT !.k = @ + 1, !.log = Append(@, entry)]
                        ELSE [drv EXCEPT !.pc = "done", !.log = Append(@, entry)]
    /\ UNCHANGED <<file, prog, num_entries, entries>>

Next ==
    \/ Open
    \/ \E index \in Requests : ExtractSprite(index)
    \/ TerrainStep
    \/ GrassOpen
    \/ GrassStep

Spec == Init /\ [][Next]_vars

-----------------------------------------------------------------------------
(* extract_palette_from_g1.py: the script reads the palette sprites 761 to  *)
(* 772 into a list of 256 colours.  In its runs drv holds the loop: k the   *)
(* sprites gone through, palette the list, copies what the triple loop did  *)
(* with each triple it read.                                               *)

\* the widest palette sprite of the containers below
MaxPaletteWidth == 2

palette_start == 761
palette_end == 773
PaletteSize == 256

\* offset, width, height, x_offset, y_offset as the script unpacks them
PaletteEntry(s) ==
    [m |-> s.m,
     entry |-> IF s.m.exc # NoExc THEN NoEntry
               ELSE [offset   |-> UnpackU32(s.vals[1]),
                     width    |-> UnpackS16(SubSeq(s.vals[2], 1, 2)),
                     height   |-> UnpackS16(SubSeq(s.vals[2], 3, 4)),
                     x_offset |-> UnpackS16(SubSeq(s.vals[3], 1, 2)),
                     y_offset |-> UnpackS16(SubSeq(s.vals[3], 3, 4))]]

\* the store that leaves an entry an earlier triple has set
PaletteStoreOnce(st, r, sprite, i, palette_idx) ==
    [m |-> r,
     palette |-> IF 0 <= palette_idx /\ palette_idx < PaletteSize
                 THEN IF st.palette[palette_idx] = <<0, 0, 0>>
                      THEN [st.palette EXCEPT ![palette_idx] = r.buf]
                      ELSE st.palette
                 ELSE st.palette,
     copies |-> Append(st.copies,
                       [sprite |-> sprite, i |-> i, at |-> r.pos - 3,
                        rgb |-> r.buf, idx |-> palette_idx,
                        kept |-> 0 <= palette_idx /\ palette_idx < PaletteSize])]

\* palette_idx = x_offset + i; if 0 <= palette_idx < 256: palette[...] = ...
\* (r: the read of the triple done, st: the loop's state before it)
PaletteStore(st, r, sprite, i, palette_idx) ==
    [m |-> r,
     palette |-> IF 0 <= palette_idx /\ palette_idx < PaletteSize
                 THEN [st.palette EXCEPT ![palette_idx] = r.buf]
                 ELSE st.palette,
     copies |-> Append(st.copies,
                       [sprite |-> sprite, i |-> i, at |-> r.pos - 3,
                        rgb |-> r.buf, idx |-> palette_idx,
                        kept |-> 0 <= palette_idx /\ palette_idx < PaletteSize])]

\* the iteration that reads the triple only when its destination is inside
\* the palette
PaletteTripleClipped(st, r, entry, sprite, i) ==
    IF ~(0 <= entry.x_offset + i /\ entry.x_offset + i < PaletteSize) THEN st
    ELSE IF Len(r.buf) # 3 THEN [st EXCEPT !.m = Raise(r, ErrUnpack)]
    ELSE PaletteStore(st, r, sprite, i, entry.x_offset + i)

\* r, g, b = struct.unpack('BBB', f.read(3)) and the rest of the iteration
PaletteTriple(st, r, entry, sprite, i) ==
    IF Len(r.buf) # 3 THEN [st EXCEPT !.m = Raise(r, ErrUnpack)]
    ELSE PaletteStore(st, r, sprite, i, entry.x_offset + i)

\* for i in range(width): the iterations from i on
RECURSIVE PaletteTriples(_, _, _, _)
PaletteTriples(st, entry, sprite, i) ==
    IF i >= entry.width \/ st.m.exc # NoExc THEN st
    ELSE PaletteTriples(
             PaletteTriple(st, ReadN(st.m, 3, "pix", i), entry, sprite, i),
             entry, sprite, i + 1)

\* one iteration of "for palette_sprite_idx in palette_sprite_indices" from
\* "if width <= 0: continue" on (h: the header read done)
PaletteSprite(st, h, sprite) ==
    IF h.m.exc # NoExc THEN [st EXCEPT !.m = h.m]
    ELSE IF h.entry.width <= 0 THEN [st EXCEPT !.m = h.m]
    ELSE PaletteTriples([st EXCEPT !.m = Seek(h.m, h.entry.offset, "data", -1)],
                        h.entry, sprite, 0)

\* the whole iteration for one palette sprite
PaletteIteration(st, sprite) ==
    PaletteSprite(st,
        PaletteEntry(
            ReadFields([m |-> Seek(st.m, SimpleHeaderBase + (sprite * EntryStride),
                                   "hdr", -1),
                        vals |-> <<>>],
                       <<4, 4, 4>>)),
        sprite)

\* the containers of the script's runs: palette sprites 761 and 762 vary in
\* width and x_offset, the other ten have width 0; sprite s holds the bytes
\* s-700+1, s-700+2, ... as its triples; cut bytes are missing at the end
PaletteOffsets == {-1, 0, PaletteSize - 1}
PaletteWidths == (-1)..MaxPaletteWidth
PaletteData(sprite, w) == [j \in 1..(3 * w) |-> (sprite - 700) + j]
PaletteDescriptor(offset, w, d) ==
    LE(offset, 4) \o LE(w, 2) \o LE(1, 2) \o LE(d, 2) \o LE(0, 2) \o LE(0, 4)
Positive(w) == IF w > 0 THEN w ELSE 0

PaletteContainer(w1, d1, w2, d2, cut) ==
    LET D  == SimpleHeaderBase + (EntryStride * palette_end)
        D2 == D + (3 * Positive(w1))
        t0 == Put(<<>>, 0, LE(palette_end, 4))
        t1 == Put(t0, SimpleHeaderBase + (EntryStride * palette_start),
                  PaletteDescriptor(D, w1, d1))
        t2 == Put(t1, SimpleHeaderBase + (EntryStride * (palette_start + 1)),
                  PaletteDescriptor(D2, w2, d2))
        t3 == Put(Put(t2, D, PaletteData(palette_start, Positive(w1))),
                  D2, PaletteData(palette_start + 1, Positive(w2)))
        len == D2 + (3 * Positive(w2)) - cut
    IN  [len |-> len, data |-> [q \in {q \in DOMAIN t3 : q < len} |-> t3[q]]]

PaletteContainers ==
    {PaletteContainer(w1, d1, w2, d2, cut) :
        w1 \in PaletteWidths, d1 \in PaletteOffsets,
        w2 \in PaletteWidths, d2 \in PaletteOffsets, cut \in {0, 1}}

PaletteInit ==
    /\ prog = "palette_main"
    /\ file \in PaletteContainers
    /\ phase = "new"
    /\ num_entries = 0
    /\ entries = <<>>
    /\ pos = 0
    /\ last = NoCall
    /\ drv = Idle

\* open(g1dat_path, 'rb'), the header read and palette = [(0, 0, 0)] * 256
PaletteOpen ==
    /\ prog = "palette_main"
    /\ phase = "new"
    /\ \E r \in {ReadN(NewCall(0), 8, "count", -1)} :
           IF Len(r.buf) # 8
           THEN /\ phase' = "crashed"
                /\ pos' = r.pos
                /\ UNCHANGED <<num_entries, drv>>
           ELSE /\ phase' = "open"
                /\ pos' = r.pos
                /\ num_entries' = UnpackU(SubSeq(r.buf, 1, 4))
                /\ drv' = [pc |-> "loop", k |-> 0, copies |-> <<>>,
                           palette |-> [p \in 0..(PaletteSize - 1) |-> <<0, 0, 0>>]]
    /\ UNCHANGED <<file, prog, entries, last>>

\* one iteration of "for palette_sprite_idx in palette_sprite_indices"
PaletteStep ==
    /\ prog = "palette_main"
    /\ phase = "open"
    /\ drv.pc = "loop"
    /\ \E st \in {PaletteIteration([m |-> NewCall(pos), palette |-> drv.palette,
                                     copies |-> drv.copies],
                                    palette_start + drv.k)} :
           /\ pos' = st.m.pos
           /\ last' = Outcome(palette_start + drv.k,
                              IF st.m.exc # NoExc THEN "raise" ELSE "None",
                              NoEntry, st.m)
           /\ phase' = IF st.m.exc # NoExc THEN "crashed" ELSE phase
           /\ drv' = [pc |-> IF st.m.exc # NoExc THEN "aborted"
                             ELSE IF palette_start + drv.k + 1 < palette_end
                             THEN "loop" ELSE "done",
                      k |-> IF st.m.exc # NoExc THEN drv.k ELSE drv.k + 1,
                      copies |-> st.copies, palette |-> st.palette]
    /\ UNCHANGED <<file, prog, num_entries, entries>>

PaletteNext == PaletteOpen \/ PaletteStep

SpecPalette == PaletteInit /\ [][PaletteNext]_vars

-----------------------------------------------------------------------------
(* The decoders one file operation at a time.  A call is a record th: its  *)
(* index, where it stands (pc), and its Python locals; the file cursor     *)
(* (pos) and G1DATExtractor's cache (entries) are the object's, shared by  *)
(* the calls on it.  Each step is one seek or read with the statements up  *)
(* to the next one, and gives the call, the cursor and the cache after it. *)
(* cut notes that a step of another call fell between two steps of this   *)
(* one, zero that the call met a run of length 0.                          *)

NewCallSteps(index) ==
    [index |-> index, pc |-> "call", entry |-> NoEntry, vals |-> <<>>,
     row |-> 0, x |-> 0, k |-> 0, hdr |-> 0, off |-> 0, saved_pos |-> 0,
     size |-> <<>>, px |-> <<>>, ret |-> "none", exc |-> NoExc,
     caught |-> {}, cut |-> FALSE, zero |-> FALSE]

After(th, p, e) == [th |-> th, pos |-> p, entries |-> e]

\* return or raise
Finish(th, ret, exc) == [th EXCEPT !.pc = "done", !.ret = ret, !.exc = exc]

\* if entry['width'] == 0 or entry['height'] == 0: return None
G1sCheck(th) ==
    IF th.entry.width = 0 \/ th.entry.height = 0 THEN Finish(th, "None", NoExc)
    ELSE [th EXCEPT !.pc = "dseek"]

\* the index test and the cache test of extract_sprite
G1sCall(th) ==
    IF th.index >= num_entries THEN Finish(th, "None", NoExc)
    ELSE IF th.index \in DOMAIN entries
    THEN G1sCheck([th EXCEPT !.entry = entries[th.index]])
    ELSE [th EXCEPT !.pc = "hseek"]

\* self.file.seek(header_offset)
G1sHeaderSeek(th) ==
    After([th EXCEPT !.pc = "hread", !.vals = <<>>],
          G1HeaderBase + (th.index * EntryStride), entries)

\* the last field read: the dict goes to self.entries[index]
G1sHeaderDone(th, entry) ==
    After(G1sCheck([th EXCEPT !.entry = entry]), pos + 2,
          (th.index :> entry) @@ entries)

\* one struct.unpack(fmt, self.file.read(k)) of _read_entry_header
\* (buf: the bytes read, k: the bytes asked for)
G1sHeaderRead(th, buf, k) ==
    IF Len(buf) # k THEN After(Finish(th, "raise", ErrUnpack), pos + Len(buf), entries)
    ELSE IF Len(th.vals) = 5
    THEN G1sHeaderDone(th, G1Entry([m |-> NewCall(0),
                                    vals |-> Append(th.vals, buf)]).entry)
    ELSE After([th EXCEPT !.vals = Append(@, buf)], pos + k, entries)

\* self.file.seek(entry['offset']) and Image.new
G1sDataSeek(th) ==
    After([th EXCEPT !.pc = "rowoff", !.row = 0, !.x = 0,
                     !.size = <<th.entry.width, th.entry.height>>],
          th.entry.offset, entries)

\* the next iteration of "for row in range(entry['height'])", or return img
G1sNextRow(th) ==
    IF th.row + 1 >= th.entry.height THEN Finish(th, "img", NoExc)
    ELSE [th EXCEPT !.row = @ + 1, !.x = 0, !.pc = "rowoff"]

\* row_offset = struct.unpack('<H', self.file.read(2))[0] and the test for
\* 0xFFFF; saved_pos = self.file.tell()
G1sRowOffset(th, buf) ==
    IF Len(buf) # 2 THEN After(Finish(th, "None", ErrUnpack), pos + Len(buf), entries)
    ELSE IF UnpackU(buf) = EmptyRow THEN After(G1sNextRow(th), pos + 2, entries)
    ELSE After([th EXCEPT !.off = UnpackU(buf), !.saved_pos = pos + 2,
                          !.pc = "rseek"],
               pos + 2, entries)

\* while x < entry['width']
G1sLoop(th) ==
    [th EXCEPT !.pc = IF th.x < th.entry.width THEN "chunk" ELSE "restore"]

\* self.file.seek(entry['offset'] + row_offset)
G1sRowSeek(th) == After(G1sLoop(th), th.entry.offset + th.off, entries)

\* for _ in range(num_pixels): if x < entry['width']: up to the next read
G1sPixLoop(th) ==
    IF th.k > 0 /\ th.x < th.entry.width THEN [th EXCEPT !.pc = "pix"]
    ELSE G1sLoop([th EXCEPT !.k = 0])

\* the chunk read that leaves the cursor where it is after a header 0
G1sChunkStuck(th, buf) ==
    IF Len(buf) = 0 THEN After(Finish(th, "None", ErrEOF), pos, entries)
    ELSE IF buf[1] >= 128
    THEN After(G1sLoop([th EXCEPT !.x = @ + (buf[1] % 128)]), pos + 1, entries)
    ELSE After(G1sPixLoop([th EXCEPT !.k = buf[1],
                                     !.zero = @ \/ buf[1] = 0]),
               IF buf[1] = 0 THEN pos ELSE pos + 1, entries)

\* chunk_info = self.file.read(1)[0] and the if/else on its high bit
G1sChunk(th, buf) ==
    IF Len(buf) = 0 THEN After(Finish(th, "None", ErrEOF), pos, entries)
    ELSE IF buf[1] >= 128
    THEN After(G1sLoop([th EXCEPT !.x = @ + (buf[1] % 128)]), pos + 1, entries)
    ELSE After(G1sPixLoop([th EXCEPT !.k = buf[1],
                                     !.zero = @ \/ buf[1] = 0]),
               pos + 1, entries)

\* palette_index = self.file.read(1)[0]; color = RCT2_PALETTE[palette_index];
\* pixels[x, row] = (*color, 255); x += 1
G1sPixel(th, buf) ==
    IF Len(buf) = 0 THEN After(Finish(th, "None", ErrEOF), pos, entries)
    ELSE IF buf[1] >= Len(RCT2_PALETTE)
    THEN After(Finish(th, "None", ErrPalette), pos + 1, entries)
    ELSE After(G1sPixLoop([th EXCEPT
                   !.px = (<<th.x, th.row>> :> (RCT2_PALETTE[buf[1] + 1] \o <<255>>))
                          @@ @,
                   !.x = @ + 1, !.k = @ - 1]),
               pos + 1, entries)

\* extract_sprite without the seek to the sprite's data
G1sStepNoDataSeek(th) ==
    CASE th.pc = "call"    -> After(G1sCall(th), pos, entries)
      [] th.pc = "hseek"   -> G1sHeaderSeek(th)
      [] th.pc = "hread"   ->
             G1sHeaderRead(th,
                 FileRead(pos, <<4, 2, 2, 2, 2, 2>>[Len(th.vals) + 1]),
                 <<4, 2, 2, 2, 2, 2>>[Len(th.vals) + 1])
      [] th.pc = "dseek"   -> After(G1sDataSeek(th).th, pos, entries)
      [] th.pc = "rowoff"  -> G1sRowOffset(th, FileRead(pos, 2))
      [] th.pc = "rseek"   -> G1sRowSeek(th)
      [] th.pc = "chunk"   -> G1sChunk(th, FileRead(pos, 1))
      [] th.pc = "pix"     -> G1sPixel(th, FileRead(pos, 1))
      [] th.pc = "restore" -> After(G1sNextRow(th), th.saved_pos, entries)

\* the next step of a call of extract_sprite
G1sStep(th) ==
    CASE th.pc = "call"    -> After(G1sCall(th), pos, entries)
      [] th.pc = "hseek"   -> G1sHeaderSeek(th)
      [] th.pc = "hread"   ->
             G1sHeaderRead(th,
                 FileRead(pos, <<4, 2, 2, 2, 2, 2>>[Len(th.vals) + 1]),
                 <<4, 2, 2, 2, 2, 2>>[Len(th.vals) + 1])
      [] th.pc = "dseek"   -> G1sDataSeek(th)
      [] th.pc = "rowoff"  -> G1sRowOffset(th, FileRead(pos, 2))
      [] th.pc = "rseek"   -> G1sRowSeek(th)
      [] th.pc = "chunk"   -> G1sChunk(th, FileRead(pos, 1))
      [] th.pc = "pix"     -> G1sPixel(th, FileRead(pos, 1))
      [] th.pc = "restore" -> After(G1sNextRow(th), th.saved_pos, entries)

\* extract_grass_simple.py, one iteration of its main loop step by step: in
\* th, vals holds the header fields and then the row offsets, hdr is
\* data_size, x is first_pixel_x and k is i

\* extract_sprite_simple up to Image.new, with the header just read
SsCheck(th) ==
    IF th.entry.width <= 0 \/ th.entry.height <= 0 THEN Finish(th, "None", NoExc)
    ELSE [th EXCEPT !.pc = "dseek", !.vals = <<>>,
                    !.size = <<th.entry.width, th.entry.height>>]

\* f.seek(header_offset)
SsHeaderSeek(th) ==
    After([th EXCEPT !.pc = "hread", !.vals = <<>>],
          SimpleHeaderBase + (th.index * EntryStride), entries)

\* one struct.unpack(fmt, f.read(k)) of read_entry_header
SsHeaderRead(th, buf, k) ==
    IF Len(buf) # k THEN After(Finish(th, "raise", ErrUnpack), pos + Len(buf), entries)
    ELSE IF Len(th.vals) = 4
    THEN After(SsCheck([th EXCEPT !.entry =
                   SimpleEntry([m |-> NewCall(0),
                                vals |-> Append(th.vals, buf)]).entry]),
               pos + k, entries)
    ELSE After([th EXCEPT !.vals = Append(@, buf)], pos + k, entries)

\* the next row at or after r whose offset is neither 0 nor 0xFFFF, or
\* return img
RECURSIVE SsNextRow(_, _)
SsNextRow(th, r) ==
    IF r >= th.entry.height THEN Finish(th, "img", NoExc)
    ELSE IF th.vals[r + 1] = 0 \/ th.vals[r + 1] = EmptyRow THEN SsNextRow(th, r + 1)
    ELSE [th EXCEPT !.row = r, !.pc = "rseek"]

\* offset = struct.unpack('<H', f.read(2))[0]; row_offsets.append(offset)
SsRowOffset(th, buf) ==
    IF Len(buf) # 2 THEN After(Finish(th, "raise", ErrUnpack), pos + Len(buf), entries)
    ELSE IF Len(th.vals) + 1 = th.entry.height
    THEN After(SsNextRow([th EXCEPT !.vals = Append(@, UnpackU(buf))], 0),
               pos + 2, entries)
    ELSE After([th EXCEPT !.vals = Append(@, UnpackU(buf))], pos + 2, entries)

\* except: break
SsBreak(th, e) == SsNextRow([th EXCEPT !.caught = @ \cup {e}], th.row + 1)

\* if is_end_of_line: break
SsRunEnd(th) ==
    IF th.hdr >= 128 THEN SsNextRow(th, th.row + 1) ELSE [th EXCEPT !.pc = "chunk"]

\* for i in range(data_size): if 0 <= x_pos < entry['width']: up to the next
\* read
SsPixLoop(th) ==
    IF th.k < th.hdr % 128 /\ th.x + th.k < th.entry.width
    THEN [th EXCEPT !.pc = "pix"]
    ELSE SsRunEnd(th)

\* data_size = f.read(1)[0]
SsChunk(th, buf) ==
    IF Len(buf) = 0 THEN After(SsBreak(th, ErrEOF), pos, entries)
    ELSE After([th EXCEPT !.hdr = buf[1], !.pc = "startx"], pos + 1, entries)

\* first_pixel_x = f.read(1)[0]
SsStartX(th, buf) ==
    IF Len(buf) = 0 THEN After(SsBreak(th, ErrEOF), pos, entries)
    ELSE After(SsPixLoop([th EXCEPT !.x = buf[1], !.k = 0,
                                    !.zero = @ \/ th.hdr % 128 = 0]),
               pos + 1, entries)

\* palette_idx = f.read(1)[0]; color = PALETTE[palette_idx];
\* pixels[x_pos, row_num] = (*color, 255)
SsPixel(th, buf) ==
    IF Len(buf) = 0 THEN After(SsBreak(th, ErrEOF), pos, entries)
    ELSE IF buf[1] >= Len(PALETTE) THEN After(SsBreak(th, ErrPalette), pos + 1, entries)
    ELSE After(SsPixLoop([th EXCEPT
                   !.px = (<<th.x + th.k, th.row>> :> (PALETTE[buf[1] + 1] \o <<255>>))
                          @@ @,
                   !.k = @ + 1]),
               pos + 1, entries)

\* the next step of an iteration of the main loop
SsStep(th) ==
    CASE th.pc = "call"    -> After([th EXCEPT !.pc = "hseek"], pos, entries)
      [] th.pc = "hseek"   -> SsHeaderSeek(th)
      [] th.pc = "hread"   ->
             SsHeaderRead(th,
                 FileRead(pos, <<4, 4, 4, 2, 2>>[Len(th.vals) + 1]),
                 <<4, 4, 4, 2, 2>>[Len(th.vals) + 1])
      [] th.pc = "dseek"   -> After([th EXCEPT !.pc = "rowoff"], th.entry.offset, entries)
      [] th.pc = "rowoff"  -> SsRowOffset(th, FileRead(pos, 2))
      [] th.pc = "rseek"   ->
             After([th EXCEPT !.pc = "chunk"],
                   th.entry.offset + th.vals[th.row + 1], entries)
      [] th.pc = "chunk"   -> SsChunk(th, FileRead(pos, 1))
      [] th.pc = "startx"  -> SsStartX(th, FileRead(pos, 1))
      [] th.pc = "pix"     -> SsPixel(th, FileRead(pos, 1))

\* the longest row payload of sprite A in the runs of two calls at once
MaxStepPayload == 1

\* how often a call is interrupted, between two of its steps, by a step of
\* the other call
MaxPreemptions == 1

\* the containers of the runs step by step: two entries, sprite A at index 0
\* and the intact sprite B at index 1
StepA == 0
StepB == 1
StepContainers(base, alphabet, maxPayload) ==
    UNION {{ContainerAt(base, StepA, StepB + 1, w, h, a) :
               a \in AData(h, alphabet, maxPayload)} :
              w \in Widths, h \in Heights}

\* a row of a transparent run and an opaque run that ends past the width
StepExample == <<129, 2, 0, 2>>

\* of these, the ones whose rows are empty or start right after the table
TwoCallContainers ==
    UNION {{ContainerAt(G1HeaderBase, StepA, StepB + 1, w, h,
                        Flatten([r \in 1..h |-> LE(t[r], 2)]) \o p) :
               t \in [1..h -> {EmptyRow, 2 * h}],
               p \in SeqsUpTo(G1Bytes, MaxStepPayload) \cup {StepExample}} :
              w \in Widths, h \in Heights}

\* the longest row payload of sprite A in the runs of one call step by step
MaxRowPayload == 2

\* two calls of extract_sprite at once on one G1DATExtractor
StepsInit ==
    /\ prog = "rct2_steps"
    /\ file \in TwoCallContainers
    /\ phase = "new"
    /\ num_entries = 0
    /\ entries = <<>>
    /\ pos = 0
    /\ last = NoCall
    /\ drv = [calls |-> <<>>, running |-> 0, preemptions |-> 0]

\* open and the read of the count header; then two callers of extract_sprite
\* on the one G1DATExtractor, for sprite A and sprite B, or the one call
\* for sprite A
StepsOpen ==
    /\ phase = "new"
    /\ \E k \in {IF prog = "grass_rows" THEN SimpleHeaderBase ELSE G1HeaderBase} :
           IF Len(FileRead(0, k)) # k
           THEN /\ phase' = "crashed"
                /\ pos' = Len(FileRead(0, k))
                /\ UNCHANGED <<num_entries, drv>>
           ELSE /\ phase' = "open"
                /\ pos' = k
                /\ num_entries' = UnpackU(FileRead(0, 4))
                /\ drv' = [drv EXCEPT !.calls =
                               IF prog = "rct2_steps"
                               THEN <<NewCallSteps(StepA), NewCallSteps(StepB)>>
                               ELSE <<NewCallSteps(StepA)>>]
    /\ UNCHANGED <<file, prog, entries, last>>

\* call u stands between two of its steps
MidCall(u) == drv.calls[u].pc \notin {"call", "done"}

\* a step of call t comes between two steps of the call that ran last
Preempts(t) == drv.running \notin {0, t} /\ MidCall(drv.running)

\* the step of call t, between any two steps of the other call
ThreadStep(t) ==
    /\ phase = "open"
    /\ drv.calls[t].pc # "done"
    /\ Preempts(t) => drv.preemptions < MaxPreemptions
    /\ \E r \in {IF prog = "grass_rows" THEN SsStep(drv.calls[t])
                  ELSE G1sStep(drv.calls[t])} :
           /\ pos' = r.pos
           /\ entries' = r.entries
           /\ drv' = [calls |-> [u \in DOMAIN drv.calls |->
                                   IF u = t THEN r.th
                                   ELSE IF MidCall(u)
                                   THEN [drv.calls[u] EXCEPT !.cut = TRUE]
                                   ELSE drv.calls[u]],
                      running |-> t,
                      preemptions |-> IF Preempts(t) THEN drv.preemptions + 1
                                      ELSE drv.preemptions]
    /\ UNCHANGED <<file, prog, phase, num_entries, last>>

StepsNext == StepsOpen \/ \E t \in DOMAIN drv.calls : ThreadStep(t)

SpecSteps == StepsInit /\ [][StepsNext]_vars

\* one call of either decoder, for sprite A, step by step
RowsInit ==
    /\ prog \in {"rct2_rows", "grass_rows"}
    /\ file \in
         IF prog = "rct2_rows"
         THEN StepContainers(G1HeaderBase, G1Bytes, MaxRowPayload)
         ELSE StepContainers(SimpleHeaderBase, SimpleBytes, MaxRowPayload)
    /\ phase = "new"
    /\ num_entries = 0
    /\ entries = <<>>
    /\ pos = 0
    /\ last = NoCall
    /\ drv = [calls |-> <<>>, running |-> 0, preemptions |-> 0]

\* the call goes on taking its steps
FairRows ==
    RowsInit /\ [][StepsNext]_vars /\ WF_vars(phase = "open" /\ ThreadStep(1))

-----------------------------------------------------------------------------
(* stability_monitor.py: StabilityMonitor.run starts the simulator, samples *)
(* it until the target tick, and stops it.  In its runs drv holds the       *)
(* monitor: pc where run() stands, proc the simulator process ("none"       *)
(* before Popen, then "running" or "exited"), monitoring that monitor_loop  *)
(* was entered, samples the list self.samples, terminate and kill that the  *)
(* call was made on the process, timeout that wait(timeout=10) raised       *)
(* TimeoutExpired, exc the exception that left run(), log_open that         *)
(* self.log_file is open.                                                   *)

TARGET_TICKS == 100000

\* the most samples a run of the monitor takes
MaxSamples == 3

\* current_tick as the health API reports it
Ticks == {0, TARGET_TICKS - 1, TARGET_TICKS}

\* what get_sim_status returns: None when a request failed, else the dict
NoStatus == [answered |-> FALSE, current_tick |-> 0]
Statuses == {NoStatus} \cup {[answered |-> TRUE, current_tick |-> t] : t \in Ticks}

ErrType == "TypeError: unsupported format string passed to NoneType.__format__"
ErrInterrupt == "KeyboardInterrupt"
ErrExit == "SystemExit"

MonitorInit ==
    /\ prog = "stability_monitor"
    /\ file = [len |-> 0, data |-> <<>>]
    /\ phase = "new"
    /\ num_entries = 0
    /\ entries = <<>>
    /\ pos = 0
    /\ last = NoCall
    /\ drv = [pc |-> "run", proc |-> "none", monitoring |-> FALSE,
              samples |-> <<>>, terminate |-> FALSE, kill |-> FALSE,
              timeout |-> FALSE, exc |-> NoExc, log_open |-> TRUE]

\* an exception leaves run(): finally: self.log_file.close()
Leave(d, e) == [d EXCEPT !.pc = "exit", !.exc = e, !.log_open = FALSE]

\* start_simulator: Popen, time.sleep(10), poll (outcome: the simulator is
\* up, has exited, or Ctrl-C came during the sleep); then the first lines of
\* monitor_loop
StartSimulator ==
    /\ prog = "stability_monitor"
    /\ drv.pc = "run"
    /\ \E outcome \in {"up", "failed", "interrupted"} :
           drv' = CASE outcome = "up" ->
                         [drv EXCEPT !.proc = "running", !.pc = "loop",
                                     !.monitoring = TRUE]
                    [] outcome = "failed" ->
                         Leave([drv EXCEPT !.proc = "exited"], ErrExit)
                    [] outcome = "interrupted" ->
                         Leave([drv EXCEPT !.proc = "running"], ErrInterrupt)
    /\ UNCHANGED <<file, prog, phase, num_entries, entries, pos, last>>

\* while self.sim_process.poll() is None   (alive: the simulator still runs)
Poll ==
    /\ prog = "stability_monitor"
    /\ drv.pc = "loop"
    /\ \E alive \in BOOLEAN :
           /\ alive => Len(drv.samples) < MaxSamples
           /\ drv' = IF alive THEN [drv EXCEPT !.pc = "sample"]
                     ELSE [drv EXCEPT !.pc = "stop", !.proc = "exited"]
    /\ UNCHANGED <<file, prog, phase, num_entries, entries, pos, last>>

\* the sample appended to self.samples
Sample(memory_mb, status) == [memory_mb |-> memory_mb, status |-> status]

\* what take_sample returns: status['current_tick'], or 0 without a status
SampleTick(status) == IF status.answered THEN status.current_tick ELSE 0

\* take_sample with a memory reading: it logs the sample and returns
\* SampleTick(status); then "if current_tick >= TARGET_TICKS: break"
SampleLogged(d, status) ==
    IF SampleTick(status) >= TARGET_TICKS THEN [d EXCEPT !.pc = "stop"]
    ELSE [d EXCEPT !.pc = "sleep"]

\* take_sample and the test of its result: both log lines format
\* memory_mb with :.1f, which raises TypeError on None
TakeSampleDone(d, memory_mb, status) ==
    IF memory_mb = "None"
    THEN Leave([d EXCEPT !.samples = Append(@, Sample(memory_mb, status))],
               ErrType)
    ELSE SampleLogged([d EXCEPT !.samples = Append(@, Sample(memory_mb, status))],
                      status)

\* current_tick = self.take_sample() (memory_mb: what get_memory_mb returned,
\* None when ps gave no number or its bare except swallowed a Ctrl-C;
\* status: what get_sim_status returned, None when the API did not answer;
\* interrupted: Ctrl-C came during a request of get_sim_status, whose
\* "except Exception" lets it through to monitor_loop)
TakeSample ==
    /\ prog = "stability_monitor"
    /\ drv.pc = "sample"
    /\ \E memory_mb \in {"None", "rss"}, status \in Statuses,
          interrupted \in BOOLEAN :
           drv' = IF interrupted THEN [drv EXCEPT !.pc = "stop"]
                  ELSE TakeSampleDone(drv, memory_mb, status)
    /\ UNCHANGED <<file, prog, phase, num_entries, entries, pos, last>>

\* time.sleep(SAMPLE_INTERVAL), or Ctrl-C during it: except KeyboardInterrupt
Sleep ==
    /\ prog = "stability_monitor"
    /\ drv.pc = "sleep"
    /\ \E interrupted \in BOOLEAN :
           drv' = [drv EXCEPT !.pc = IF interrupted THEN "stop" ELSE "loop"]
    /\ UNCHANGED <<file, prog, phase, num_entries, entries, pos, last>>

\* self.sim_process.terminate()
Terminate ==
    /\ prog = "stability_monitor"
    /\ drv.pc = "stop"
    /\ drv' = [drv EXCEPT !.pc = "wait", !.terminate = TRUE]
    /\ UNCHANGED <<file, prog, phase, num_entries, entries, pos, last>>

\* wait(timeout=10); except TimeoutExpired: kill(); wait()   (outcome: the
\* process is gone within the 10 seconds, or it is not, or Ctrl-C came
\* during the wait)
Wait ==
    /\ prog = "stability_monitor"
    /\ drv.pc = "wait"
    /\ \E outcome \in {"in_time", "timeout", "interrupted"} :
           /\ drv.proc = "exited" => outcome = "in_time"
           /\ drv' = CASE outcome = "in_time" ->
                           [drv EXCEPT !.pc = "report", !.proc = "exited"]
                      [] outcome = "timeout" ->
                           [drv EXCEPT !.pc = "report", !.proc = "exited",
                                       !.timeout = TRUE, !.kill = TRUE]
                      [] outcome = "interrupted" -> Leave(drv, ErrInterrupt)
    /\ UNCHANGED <<file, prog, phase, num_entries, entries, pos, last>>

\* generate_report and the end of run()
Report ==
    /\ prog = "stability_monitor"
    /\ drv.pc = "report"
    /\ drv' = [drv EXCEPT !.pc = "done", !.log_open = FALSE]
    /\ UNCHANGED <<file, prog, phase, num_entries, entries, pos, last>>

MonitorNext ==
    \/ StartSimulator
    \/ Poll
    \/ TakeSample
    \/ Sleep
    \/ Terminate
    \/ Wait
    \/ Report

SpecMonitor == MonitorInit /\ [][MonitorNext]_vars

-----------------------------------------------------------------------------
(* What the claims speak of, read off the latest call (last) and the file. *)

Called == last.ret # "none"
HasEntry == "width" \in DOMAIN last.entry
InRange == last.index < num_entries
Grass == prog = "grass_main"

Width == last.entry.width
Height == last.entry.height

\* the descriptor names a sprite with pixels
HasArea == HasEntry /\ Width > 0 /\ Height > 0

\* the r-th entry of the sprite's row-offset table, as the file holds it
\* (-1 when the file ends before it)
RowOffsetOf(r) ==
    IF Len(FileRead(last.entry.offset + (2 * r), 2)) = 2
    THEN UnpackU(FileRead(last.entry.offset + (2 * r), 2))
    ELSE -1

\* the values that mark an empty row for the decoder that ran
Sentinels == IF Grass THEN {0, EmptyRow} ELSE {EmptyRow}

\* what the call did to the file for the payload of row r
PayloadIO(r) ==
    {i \in DOMAIN last.io :
        last.io[i].row = r /\ last.io[i].why \in {"row", "chunk", "startx", "pix"}}

\* the exceptions of the call: the one that ended it and the swallowed ones
Exceptions == {last.exc} \cup {c[2] : c \in last.caught}

Transparent(x, y) == <<x, y>> \notin DOMAIN last.px

-----------------------------------------------------------------------------
(* Claims.                                                                 *)

\* C1, as stated: for every in-range index whose descriptor has width > 0
\* and height > 0, decode returns a raster of the descriptor's width and
\* height, whatever the bytes of the row-offset table and the payloads.
C1_AlwaysARaster ==
    (HasArea /\ InRange) =>
        last.ret = "img" /\ last.size = <<Width, Height>>

\* C1, amended: for every in-range index whose descriptor has width > 0 and
\* height > 0, decode either returns a raster of exactly the descriptor's
\* width and height, or returns no raster: extract_sprite returns None when
\* a read ran past the end of the file or a payload byte is no index of the
\* palette, extract_sprite_simple raises struct.error when the row-offset
\* table is cut short.
C1_RasterHasDescriptorSize ==
    (HasArea /\ InRange) =>
        \/ last.ret = "img" /\ last.size = <<Width, Height>>
        \/ ~Grass /\ last.ret = "None"
              /\ last.exc \in {ErrUnpack, ErrEOF, ErrPalette}
        \/ Grass /\ last.ret = "raise" /\ last.exc = ErrUnpack

C1_Witness ==
    /\ HasArea /\ InRange
    /\ last.ret = "img"
    /\ Width # Height
    /\ last.wr # {}

\* C2: a decode request with index >= entry_count yields the out-of-range
\* result and does no seek and no read on the container; it never raises.
C2_OutOfRangeTouchesNothing ==
    (Called /\ last.index >= num_entries) =>
        last.ret = "None" /\ last.io = <<>>

\* C3: when the container ends inside a sprite's row-offset table the decode
\* of that sprite returns the error result instead of raising, and a decode
\* of the intact sprite B still returns B's raster.
C3_CutTableIsAnErrorResult ==
    /\ (HasArea /\ file.len < last.entry.offset + (2 * Height))
          => last.ret = "None"
    /\ (HasArea /\ last.index = SpriteB
          /\ file.len >= last.entry.offset + Len(IntactB(SimpleHeaderBase)))
          => last.ret = "img" /\ last.px = (<<0, 0>> :> <<35, 35, 23, 255>>)

\* C4: every pixel write of a decode targets (x, row) inside the raster, and
\* the positions right of the raster are dropped without an error: no call
\* ends in, or swallows, the image's IndexError.
C4_WritesInsideRaster ==
    Called =>
        /\ \A p \in last.wr :
              /\ 0 <= p[1] /\ p[1] < last.size[1]
              /\ 0 <= p[2] /\ p[2] < last.size[2]
        /\ \A p \in last.skip : p[1] >= Width /\ p \notin last.wr
        /\ ErrImage \notin Exceptions
        /\ last.wr # {} => last.size = <<Width, Height>>

C4_Witness ==
    /\ last.ret = "img"
    /\ last.skip # {}
    /\ last.wr # {}
    /\ Exceptions = {NoExc}

\* C5, as stated: when a row's byte stream ends with the container before
\* the row is complete, decode still returns a raster.
C5_ExhaustedRowKeepsRaster ==
    (Called /\ ErrEOF \in Exceptions) => last.ret = "img"

\* C5, amended: in extract_sprite_simple a row whose byte stream ends with
\* the container stops without raising: the pixels written so far are in the
\* raster returned, and every later row that is not empty is still decoded.
\* In extract_sprite the same end of stream makes the call return None.
C5_ExhaustedRowPerDecoder ==
    /\ (Grass /\ Called) =>
          \A c \in last.caught :
              c[2] = ErrEOF =>
                  /\ last.ret = "img"
                  /\ last.exc = NoExc
                  /\ last.wr = DOMAIN last.px
                  /\ \A r \in (c[1] + 1)..(Height - 1) :
                        RowOffsetOf(r) \notin Sentinels => PayloadIO(r) # {}
    /\ (~Grass /\ Called /\ last.exc = ErrEOF) => last.ret = "None"

C5_Witness ==
    /\ Grass
    /\ <<0, ErrEOF>> \in last.caught
    /\ Height = 2
    /\ \E x \in 0..(Width - 1) : ~Transparent(x, 1)

\* C6: for a row whose row-offset table entry is the empty-row value (0xFFFF
\* in both decoders, 0 as well in extract_sprite_simple) the call neither
\* seeks to nor reads any payload for that row, and every pixel of the row
\* is transparent in the raster returned.
C6_EmptyRowsUntouched ==
    HasArea =>
        \A r \in 0..(Height - 1) :
            RowOffsetOf(r) \in Sentinels =>
                /\ PayloadIO(r) = {}
                /\ \A x \in 0..(Width - 1) : Transparent(x, r)

C6_Witness ==
    /\ HasArea
    /\ last.ret = "img"
    /\ Height = 2
    /\ RowOffsetOf(0) \in Sentinels
    /\ RowOffsetOf(1) \notin Sentinels
    /\ \E x \in 0..(Width - 1) : ~Transparent(x, 1)

\* C7: in extract_sprite_simple a row that is one opaque run with the
\* end-of-row flag, of length n at start position s with s + n <= width,
\* decodes to PALETTE[b_i] with alpha 255 at s + i for each payload byte b_i,
\* and to transparent pixels elsewhere in the row.
C7_SingleRunRow ==
    (Grass /\ last.ret = "img") =>
        \A r \in 0..(Height - 1) :
            LET at == last.entry.offset + RowOffsetOf(r)
                n  == ByteAt(at) % 128
                s  == ByteAt(at + 1)
            IN  (/\ RowOffsetOf(r) \notin Sentinels
                 /\ at + 2 + n <= file.len
                 /\ ByteAt(at) >= 128
                 /\ s + n <= Width)
                => \A x \in 0..(Width - 1) :
                       IF s <= x /\ x < s + n
                       THEN /\ ByteAt(at + 2 + (x - s)) < Len(PALETTE)
                            /\ ~Transparent(x, r)
                            /\ last.px[<<x, r>>] =
                                   PALETTE[ByteAt(at + 2 + (x - s)) + 1] \o <<255>>
                       ELSE Transparent(x, r)

\* the report a batch driver gives a sprite whose decode failed
FailureReport == LogEntry(0, "", 0, [ret |-> "None"]).report

\* C9: a sprite whose descriptor has width 0 or height 0 gets the empty
\* result with no decode attempted (no raster allocated, no row-offset table
\* and no payload read), and the batch driver records it as a skip, not as
\* it records a decode failure.
C9_EmptySpriteIsASkip ==
    (HasEntry /\ (Width = 0 \/ Height = 0)) =>
        /\ last.ret = "None"
        /\ last.size = <<>>
        /\ \A i \in DOMAIN last.io : last.io[i].why = "hdr"
        /\ (drv.pc \in {"loop", "done"} /\ drv.log # <<>>)
              => drv.log[Len(drv.log)].report # FailureReport

\* C10: no failure of one sprite aborts a batch driver: after a decode that
\* fails, the later indices of the ranges are still attempted.
C10_BatchNeverAborts ==
    /\ drv.pc # "aborted"
    /\ drv.pc = "done" =>
          {drv.log[i].sprite : i \in DOMAIN drv.log} =
              IF Grass THEN grass_start..(grass_start + GrassSlopes - 1)
              ELSE UNION {terrain_ranges[t].start..terrain_ranges[t].end :
                             t \in DOMAIN terrain_ranges}

\* the size of the count header of the program that runs
HeaderBase == IF Grass THEN SimpleHeaderBase ELSE G1HeaderBase

\* the entry count the container's header declares
DeclaredCount == UnpackU(FileRead(0, 4))

\* C11: the palette the decoders consult has exactly 256 entries, so every
\* payload byte 0..255 resolves to an RGB triple and no palette lookup of a
\* decode is out of bounds.
C11_PaletteHas256Entries ==
    /\ Len(RCT2_PALETTE) = 256
    /\ Len(PALETTE) = 256
    /\ ErrPalette \notin Exceptions

\* C12: when the declared entry count times the entry stride exceeds the
\* bytes after the count header, open fails: the count is not taken over, no
\* per-entry storage is sized from it, and no sprite decode is attempted.
C12_ImplausibleCountRejected ==
    (phase # "new" /\ DeclaredCount * EntryStride > file.len - HeaderBase) =>
        /\ phase = "crashed"
        /\ num_entries = 0
        /\ ~Called

\* C16: a palette index the palette cannot resolve is handled alike in every
\* decode path: the call ends with the palette-index error and no raster;
\* no raster is returned from which the pixel was dropped.
C16_BadPaletteIndexRejectsSprite ==
    (Called /\ ErrPalette \in Exceptions) =>
        /\ last.ret = "None"
        /\ last.exc = ErrPalette

\* the width and height fields of the latest call's descriptor, read from
\* the container as signed 16-bit values
SignedWidth ==
    UnpackS16(FileRead(HeaderBase + (last.index * EntryStride) + 4, 2))
SignedHeight ==
    UnpackS16(FileRead(HeaderBase + (last.index * EntryStride) + 6, 2))

\* C17: a descriptor whose width or height is <= 0 as a signed 16-bit value
\* is an empty sprite in both decoders: the call returns None, allocates no
\* raster and reads nothing but the descriptor.
C17_SignedSizesMarkEmpty ==
    (HasEntry /\ (SignedWidth <= 0 \/ SignedHeight <= 0)) =>
        /\ last.ret = "None"
        /\ last.size = <<>>
        /\ \A i \in DOMAIN last.io : last.io[i].why = "hdr"

\* the runs of the latest call, and how each decoder reads a run's header:
\* extract_sprite_simple has a length byte and a start byte, every run
\* opaque; extract_sprite has one byte, opaque when its high bit is clear
RunsOf == {last.runs[k] : k \in DOMAIN last.runs}
HdrLen == IF Grass THEN 2 ELSE 1
Opaque(u) == Grass \/ u.hdr < 128
RunLen(u) == IF Grass THEN u.hdr % 128 ELSE u.hdr

\* C15: an opaque run of length n that ends without an exception leaves the
\* cursor on the byte after its n payload bytes, also when positions of it
\* are clipped; the next run header of the row is not read from inside it.
C15_OpaqueRunConsumesItsPayload ==
    /\ \A u \in RunsOf :
          (Opaque(u) /\ u.exc = NoExc) => u.after = u.at + HdrLen + RunLen(u)
    /\ \A u, v \in RunsOf :
          (Opaque(u) /\ v.row = u.row /\ v.at > u.at)
              => v.at >= u.at + HdrLen + RunLen(u)

C20_TransparentRunOnlyAdvancesX ==
    (~Grass) =>
        \A u \in RunsOf :
            u.hdr >= 128 =>
                /\ u.x1 = u.x0 + (u.hdr % 128)
                /\ u.after = u.at + 1
                /\ u.io1 = u.io0
                /\ u.w1 = u.w0
                /\ u.exc = NoExc
                /\ \A x \in u.x0..(u.x1 - 1) : <<x, u.row>> \notin last.wr

C20_Witness ==
    /\ ~Grass
    /\ last.ret = "img"
    /\ \E u, v \in RunsOf :
          /\ u.hdr >= 128 /\ u.x1 > u.x0 /\ u.x0 < Width
          /\ v.row = u.row /\ v.at > u.at /\ v.w1 > v.w0

\* the descriptor of a palette sprite, read from the container
PalField(sprite, off, k) ==
    FileRead(SimpleHeaderBase + (sprite * EntryStride) + off, k)
PalOffset(sprite) == UnpackU(PalField(sprite, 0, 4))
PalWidth(sprite) == UnpackS16(PalField(sprite, 4, 2))
PalXOffset(sprite) == UnpackS16(PalField(sprite, 8, 2))

\* the palette sprites the loop is through with
PalDone == palette_start..(palette_start + drv.k - 1)

\* C13: for each palette sprite gone through, with width w > 0 and
\* d = x_offset, triple i (the 3 bytes at data offset + 3 i) was read for
\* every i < w and went to palette[d + i] when 0 <= d + i < 256; a triple
\* whose destination is outside was dropped, without an error and without
\* shifting those after it. The loop stops only on a short read.
C13_TriplesGoToTheirSlots ==
    drv.pc \in {"loop", "done", "aborted"} =>
        /\ \A c \in DOMAIN drv.copies :
              LET e == drv.copies[c]
              IN  /\ e.at = PalOffset(e.sprite) + (3 * e.i)
                  /\ e.rgb = FileRead(e.at, 3)
                  /\ e.idx = PalXOffset(e.sprite) + e.i
                  /\ e.kept = (0 <= e.idx /\ e.idx < PaletteSize)
                  /\ (e.kept /\ \A c2 \in DOMAIN drv.copies :
                                    c2 > c => drv.copies[c2].idx # e.idx)
                        => drv.palette[e.idx] = e.rgb
        /\ \A sprite \in PalDone :
              \A i \in 0..(PalWidth(sprite) - 1) :
                  \E c \in DOMAIN drv.copies :
                      drv.copies[c].sprite = sprite /\ drv.copies[c].i = i
        /\ drv.pc = "aborted" =>
              /\ last.exc = ErrUnpack
              /\ file.len < PalOffset(palette_start + drv.k)
                               + (3 * PalWidth(palette_start + drv.k))

C13_Witness ==
    /\ drv.pc = "done"
    /\ \E c1, c2 \in DOMAIN drv.copies :
          /\ drv.copies[c1].sprite = drv.copies[c2].sprite
          /\ drv.copies[c1].i < drv.copies[c2].i
          /\ ~drv.copies[c1].kept
          /\ drv.copies[c2].kept
          /\ drv.palette[drv.copies[c2].idx] = drv.copies[c2].rgb
          /\ drv.copies[c2].rgb # <<0, 0, 0>>

\* what a call of extract_sprite(index) returns when it is the only call on
\* a freshly opened extractor
AloneG1(index) ==
    IF index >= DeclaredCount THEN Outcome(index, "None", NoEntry, NewCall(0))
    ELSE G1Cache(index,
                 G1ReadEntryHeader(
                     Seek(NewCall(0), G1HeaderBase + (index * EntryStride),
                          "hdr", -1))).out

\* the call th, gone step by step, ended as out did
SameResult(th, out) ==
    /\ th.ret = out.ret
    /\ th.exc = out.exc
    /\ out.ret = "img" => th.size = out.size /\ th.px = out.px

CallsOf == IF phase = "open" THEN DOMAIN drv.calls ELSE {}

\* C14, as stated: two calls of extract_sprite for different indices on one
\* G1DATExtractor, interleaved at their seeks and reads, each return what
\* the call returns when it runs alone.
C14_InterleavedCallsAsAlone ==
    prog = "rct2_steps" =>
        \A t \in CallsOf :
            drv.calls[t].pc = "done"
                => SameResult(drv.calls[t], AloneG1(drv.calls[t].index))

\* C14, amended: a call of extract_sprite between whose steps no step of
\* another call on the same G1DATExtractor fell returns what it returns
\* alone, whatever ran before it; calls interleaved at their seeks and reads
\* share the cursor of self.file and need not.
C14_UninterruptedCallsAsAlone ==
    prog = "rct2_steps" =>
        \A t \in CallsOf :
            (drv.calls[t].pc = "done" /\ ~drv.calls[t].cut)
                => SameResult(drv.calls[t], AloneG1(drv.calls[t].index))

C14_Witness ==
    /\ prog = "rct2_steps"
    /\ phase = "open"
    /\ \A t \in CallsOf :
          /\ drv.calls[t].pc = "done" /\ ~drv.calls[t].cut
          /\ drv.calls[t].ret = "img" /\ drv.calls[t].px # <<>>
    /\ drv.running = 1

\* call t is inside a row's byte stream
InRow(t) ==
    t \in CallsOf /\ drv.calls[t].pc \in {"chunk", "startx", "pix"}

\* C19: decoding one row terminates: a call that is inside a row's byte
\* stream leaves it, at the end-of-row flag, when x reaches the width or at
\* the end of the container, also when the stream is runs of length 0.
C19_RowsTerminate == InRow(1) ~> ~InRow(1)

C19_Witness ==
    \E t \in CallsOf :
        /\ drv.calls[t].pc = "done"
        /\ drv.calls[t].zero
        /\ drv.calls[t].exc = ErrEOF \/ ErrEOF \in drv.calls[t].caught

\* the run of the latest call that made its i-th pixel write, and the file
\* position of the payload byte read for that write
RunOfWrite(i) == CHOOSE u \in RunsOf : u.w0 < i /\ i <= u.w1
ByteOfWrite(i) == last.io[RunOfWrite(i).io0 + (i - RunOfWrite(i).w0)].at

\* the last write of the latest call to position p
LastWrite(p) ==
    CHOOSE i \in DOMAIN last.wlog :
        last.wlog[i] = p /\ \A j \in DOMAIN last.wlog : j > i => last.wlog[j] # p

\* C21: every pixel of a returned raster is transparent, when no run wrote
\* it, or holds palette[b] with alpha 255 for the payload byte b that the
\* last opaque run over that position read for it, b a byte of that run's
\* payload; there is no other pixel value.
C21_PixelsAreFillOrPalette ==
    last.ret = "img" =>
        /\ DOMAIN last.px = {last.wlog[i] : i \in DOMAIN last.wlog}
        /\ \A p \in DOMAIN last.px :
              /\ \E u \in RunsOf : u.w0 < LastWrite(p) /\ LastWrite(p) <= u.w1
              /\ Opaque(RunOfWrite(LastWrite(p)))
              /\ RunOfWrite(LastWrite(p)).row = p[2]
              /\ ByteOfWrite(LastWrite(p)) >= RunOfWrite(LastWrite(p)).at + HdrLen
              /\ ByteOfWrite(LastWrite(p)) <
                    RunOfWrite(LastWrite(p)).at + HdrLen
                        + RunLen(RunOfWrite(LastWrite(p)))
              /\ ByteAt(ByteOfWrite(LastWrite(p))) < Len(PALETTE)
              /\ last.px[p] = PALETTE[ByteAt(ByteOfWrite(LastWrite(p))) + 1] \o <<255>>

C21_Witness ==
    /\ last.ret = "img"
    /\ HasArea
    /\ \E x1, x2 \in 0..(Width - 1), y1, y2 \in 0..(Height - 1) :
          /\ Transparent(x1, y1)
          /\ ~Transparent(x2, y2)
          /\ last.px[<<x2, y2>>] # <<0, 0, 0, 255>>

\* the seeks and reads the latest call did for its descriptor, in order
IsHdr(e) == e.why = "hdr"
HdrIO == SelectSeq(last.io, IsHdr)

\* the bytes asked for by the reads of a part of the io log
RECURSIVE Asked(_)
Asked(ops) == IF ops = <<>> THEN 0 ELSE Head(ops).n + Asked(Tail(ops))

\* where the descriptor of the latest call's index starts, and a field of it
DescriptorAt == HeaderBase + (last.index * EntryStride)
Field(off, k) == FileRead(DescriptorAt + off, k)

\* the call read its descriptor from the file: one seek to
\* header_base + index * 16, then reads one after the other from there
ReadItsDescriptor ==
    /\ HdrIO # <<>>
    /\ HdrIO[1].op = "seek" /\ HdrIO[1].at = DescriptorAt
    /\ \A i \in 2..Len(HdrIO) :
          /\ HdrIO[i].op = "read"
          /\ HdrIO[i].at = DescriptorAt + Asked(SubSeq(HdrIO, 2, i - 1))

\* the fields of the parsed descriptor are the little-endian values at
\* offsets 0, 4, 6, 8, 10 and 12 of the descriptor
FieldsInOrder ==
    /\ last.entry.offset = UnpackU32(Field(0, 4))
    /\ last.entry.width = IF Grass THEN UnpackS16(Field(4, 2)) ELSE UnpackU(Field(4, 2))
    /\ last.entry.height = IF Grass THEN UnpackS16(Field(6, 2)) ELSE UnpackU(Field(6, 2))
    /\ last.entry.x_offset = UnpackS16(Field(8, 2))
    /\ last.entry.y_offset = UnpackS16(Field(10, 2))
    /\ last.entry.flags = UnpackU(Field(12, 2))

\* C22, as stated: the descriptor of index i is read at header_base + i * 16
\* with header_base the size of the count header the reader consumed, exactly
\* 16 bytes are read, and the fields are parsed little-endian in the order
\* offset, width, height, x_offset, y_offset, flags.
C22_DescriptorReadIs16Bytes ==
    (Called /\ HdrIO # <<>>) =>
        /\ ReadItsDescriptor
        /\ HasEntry => /\ Asked(HdrIO) = EntryStride
                       /\ FieldsInOrder

\* C22, amended: as stated, but the number of bytes read is 16 only in
\* read_entry_header of extract_grass_simple.py; _read_entry_header of
\* G1DATExtractor reads the 14 bytes up to flags and leaves the last two
\* bytes of the descriptor unread.
C22_DescriptorLayout ==
    (Called /\ HdrIO # <<>>) =>
        /\ ReadItsDescriptor
        /\ HasEntry => /\ Asked(HdrIO) = IF Grass THEN EntryStride
                                          ELSE EntryStride - 2
                       /\ FieldsInOrder

C22_Witness ==
    /\ Called /\ HdrIO # <<>> /\ HasEntry
    /\ last.entry.offset > 0
    /\ Width = 2 /\ Height = 1

\* the descriptor at index i as the container holds it, in the types of
\* G1DATExtractor._read_entry_header
G1DescriptorAt(i) ==
    [offset   |-> UnpackU32(FileRead(G1HeaderBase + (i * EntryStride), 4)),
     width    |-> UnpackU(FileRead(G1HeaderBase + (i * EntryStride) + 4, 2)),
     height   |-> UnpackU(FileRead(G1HeaderBase + (i * EntryStride) + 6, 2)),
     x_offset |-> UnpackS16(FileRead(G1HeaderBase + (i * EntryStride) + 8, 2)),
     y_offset |-> UnpackS16(FileRead(G1HeaderBase + (i * EntryStride) + 10, 2)),
     flags    |-> UnpackU(FileRead(G1HeaderBase + (i * EntryStride) + 12, 2))]

\* the programs that use G1DATExtractor call by call
G1Client == prog \in {"rct2_api", "rct2_main"}

\* C23: after any sequence of extract_sprite calls every cached descriptor
\* entries[i] is the descriptor the container holds at index i, and a call
\* whose header parse failed left entries[i] unset; no call changes or
\* evicts a cached descriptor, and a call sets at most the entry of its own
\* index.
C23_CacheIsTheContainersDescriptors ==
    /\ [](G1Client =>
            /\ \A i \in DOMAIN entries :
                  /\ file.len >= G1HeaderBase + (i * EntryStride) + EntryStride - 2
                  /\ entries[i] = G1DescriptorAt(i)
            /\ (Called /\ last.ret = "raise") => last.index \notin DOMAIN entries)
    /\ [][G1Client =>
            /\ \A i \in DOMAIN entries :
                  i \in DOMAIN entries' /\ entries'[i] = entries[i]
            /\ \A j \in DOMAIN entries' :
                  j \in DOMAIN entries \/ j = last'.index]_vars

C23_Witness ==
    /\ prog = "rct2_api"
    /\ DOMAIN entries = {SpriteA, SpriteB}
    /\ entries[SpriteA] # entries[SpriteB]
    /\ last.index = SpriteA
    /\ HdrIO = <<>>
    /\ last.ret = "img"

\* the runs of the latest call whose header has the high bit set
FlaggedRuns == {u \in RunsOf : u.hdr >= 128}

\* after run u the call read another run header for the same row
RowGoesOn(u) ==
    \E i \in DOMAIN last.io :
        i > u.io1 /\ last.io[i].why = "chunk" /\ last.io[i].row = u.row

\* C24: a run header with the high bit set means, in extract_sprite_simple,
\* a run with a start-x byte whose n payload bytes are read and which then
\* ends the row; in G1DATExtractor.extract_sprite a run with no start-x byte
\* that reads no payload, writes nothing, advances x by n and does not end
\* the row.
C24_HighBitPerDecoder ==
    /\ Grass =>
          \A u \in FlaggedRuns :
              /\ ~RowGoesOn(u)
              /\ u.exc = NoExc => u.after = u.at + 2 + (u.hdr % 128)
    /\ (Called /\ ~Grass) =>
          \A u \in FlaggedRuns :
              /\ u.after = u.at + 1
              /\ u.io1 = u.io0 /\ u.w1 = u.w0
              /\ u.x1 = u.x0 + (u.hdr % 128)
              /\ u.x1 < Width => RowGoesOn(u)

\* C25: whatever extract_sprite calls came before on the same extractor
\* (successful, empty, out of range, failed inside a row), a call of
\* extract_sprite(i) returns what it returns on a freshly opened extractor:
\* the same raster, None with the same error, or the same exception.
C25_ResultIndependentOfHistory ==
    (G1Client /\ Called) =>
        /\ SameResult(last, AloneG1(last.index))
        /\ last.size = AloneG1(last.index).size
        /\ last.wlog = AloneG1(last.index).wlog

C25_Witness ==
    /\ prog = "rct2_api"
    /\ last.index = SpriteB
    /\ HdrIO = <<>>
    /\ last.ret = "img" /\ last.px # <<>>
    /\ SpriteA \in DOMAIN entries
    /\ AloneG1(SpriteA).ret = "None"
    /\ AloneG1(SpriteA).exc = ErrEOF
    /\ AloneG1(SpriteA).wlog # <<>>

\* the pixels that the byte stream of row y alone decodes to: the row loop
\* of the decoder that ran, started at the row's offset on an empty raster
RowAlone(y) ==
    IF RowOffsetOf(y) \in Sentinels \cup {-1} THEN <<>>
    ELSE IF Grass
    THEN SimpleRowLoop(Seek(NewImage(NewCall(0), Width, Height),
                            last.entry.offset + RowOffsetOf(y), "row", y),
                       last.entry, y).px
    ELSE G1RowLoop(Seek(NewImage(NewCall(0), Width, Height),
                        last.entry.offset + RowOffsetOf(y), "row", y),
                   last.entry, y).px

\* the pixels of row y in the raster of the latest call
RowPixels(y) == [p \in {q \in DOMAIN last.px : q[2] = y} |-> last.px[p]]

\* C26: every pixel write made while row r is decoded has y = r, and the
\* pixels of row r in a returned raster are what the byte stream at row r's
\* offset decodes to by itself, whatever the streams of the other rows hold.
C26_RowsAreIsolated ==
    Called =>
        /\ \A i \in DOMAIN last.wlog :
              /\ \E u \in RunsOf : u.w0 < i /\ i <= u.w1
              /\ last.wlog[i][2] = RunOfWrite(i).row
              /\ last.io[RunOfWrite(i).io0 + (i - RunOfWrite(i).w0)].row
                    = last.wlog[i][2]
        /\ last.ret = "img" =>
              \A y \in 0..(Height - 1) : RowPixels(y) = RowAlone(y)

C26_Witness ==
    /\ last.ret = "img"
    /\ Height = 2
    /\ RowPixels(0) # <<>>
    /\ RowPixels(1) # <<>>
    /\ RowPixels(0) # [p \in {<<q[1], 0>> : q \in DOMAIN RowPixels(1)} |->
                          RowPixels(1)[<<p[1], 1>>]]

\* the palette sprites gone through whose destination range holds entry p
Covering(p) ==
    {sprite \in PalDone :
        /\ PalWidth(sprite) > 0
        /\ PalXOffset(sprite) <= p
        /\ p < PalXOffset(sprite) + PalWidth(sprite)}

LastOf(S) == CHOOSE sprite \in S : \A other \in S : other <= sprite

\* the triple of palette sprite sprite that is destined for entry p
TripleFor(sprite, p) ==
    FileRead(PalOffset(sprite) + (3 * (p - PalXOffset(sprite))), 3)

\* C27: the palette has exactly 256 entries at every point of the run; after
\* each palette sprite gone through, entry p holds the triple that the last
\* sprite so far whose range [x_offset, x_offset + width) contains p has for
\* it, and (0, 0, 0) when no sprite so far covers p, so that a sprite with
\* width <= 0 changes nothing.
C27_PaletteIsLastWriterPerEntry ==
    drv.pc \in {"loop", "done", "aborted"} =>
        /\ DOMAIN drv.palette = 0..(PaletteSize - 1)
        /\ Cardinality(DOMAIN drv.palette) = 256
        /\ drv.pc # "aborted" =>
              \A p \in DOMAIN drv.palette :
                  drv.palette[p] =
                      IF Covering(p) = {} THEN <<0, 0, 0>>
                      ELSE TripleFor(LastOf(Covering(p)), p)

C27_Witness ==
    /\ drv.pc = "done"
    /\ \E p \in DOMAIN drv.palette :
          /\ Covering(p) = {palette_start, palette_start + 1}
          /\ TripleFor(palette_start, p) # TripleFor(palette_start + 1, p)
          /\ drv.palette[p] = TripleFor(palette_start + 1, p)
    /\ \E p \in DOMAIN drv.palette : Covering(p) = {}

\* run() is past monitor_loop or has been left by an exception
OutOfMonitoring == drv.monitoring /\ drv.pc \in {"report", "done", "exit"}

\* C28: once the simulator was spawned and monitoring began, every way out
\* of monitoring (target tick reached, simulator exited, Ctrl-C, a sample
\* without a memory reading or without an API answer) has called
\* terminate() on the process, and kill() when the process had not exited
\* within the 10 second wait.
C28_SimulatorAlwaysStopped ==
    OutOfMonitoring =>
        /\ drv.terminate
        /\ drv.timeout => drv.kill
        /\ drv.proc = "exited"

\* the entries of the log of extract_terrain_sprites, and the range of a
\* terrain
TerrainLog == IF prog = "rct2_main" /\ phase # "new" THEN drv.log ELSE <<>>
RangeOf(terrain) ==
    CHOOSE t \in DOMAIN terrain_ranges : terrain_ranges[t].terrain = terrain

\* C29: in extract_terrain_sprites the file slope_k of a terrain is only
\* ever written from the sprite at index start + k of that terrain's range:
\* a sprite that failed or is empty writes no file and the sprites after it
\* keep their numbers, and the first sprite of every terrain has number 0.
C29_SlopeNumberIsRangePosition ==
    \A i \in DOMAIN TerrainLog :
        /\ TerrainLog[i].sprite =
              terrain_ranges[RangeOf(TerrainLog[i].terrain)].start
                  + TerrainLog[i].slope
        /\ TerrainLog[i].sprite <= terrain_ranges[RangeOf(TerrainLog[i].terrain)].end
        /\ TerrainLog[i].slope >= 0
        /\ \A j \in DOMAIN TerrainLog :
              (/\ TerrainLog[j].report = "saved" /\ TerrainLog[i].report = "saved"
               /\ TerrainLog[j].terrain = TerrainLog[i].terrain
               /\ TerrainLog[j].slope = TerrainLog[i].slope) => j = i

C29_Witness ==
    /\ prog = "rct2_main"
    /\ drv.pc = "done"
    /\ \E i, j \in DOMAIN drv.log :
          /\ drv.log[i].sprite = SpriteA /\ drv.log[i].report = "failed"
          /\ drv.log[j].sprite = SpriteB /\ drv.log[j].report = "saved"
          /\ drv.log[j].slope = 1
    /\ \E i \in DOMAIN drv.log :
          drv.log[i].terrain = "sand" /\ drv.log[i].slope = 0

\* the reads of row offsets that the latest call of extract_sprite did
RowOffsetReads ==
    {i \in DOMAIN last.io : last.io[i].why = "rowoff" /\ last.io[i].op = "read"}

\* C30: in extract_sprite the read of the row offset of row r happens with
\* the cursor at data offset + 2 r, for every row the call gets to, whether
\* the rows before it were empty or decoded; the rows are read in order,
\* once each.
C30_RowOffsetReadAtItsEntry ==
    (G1Client /\ Called) =>
        /\ \A i \in RowOffsetReads :
              /\ last.io[i].at = last.entry.offset + (2 * last.io[i].row)
              /\ last.io[i].n = 2
              /\ last.io[i].row >= 0 /\ last.io[i].row < Height
        /\ \A i, j \in RowOffsetReads : i < j => last.io[i].row < last.io[j].row
        /\ last.ret = "img" =>
              {last.io[i].row : i \in RowOffsetReads} = 0..(Height - 1)

C30_Witness ==
    /\ G1Client
    /\ last.ret = "img"
    /\ Height = 2
    /\ RowPixels(0) # <<>>
    /\ RowPixels(1) # <<>>
    /\ \E i \in DOMAIN last.io :
          /\ last.io[i].why = "restore" /\ last.io[i].row = 0
          /\ last.io[i].at = last.entry.offset + 2
          /\ last.io[i - 1].why = "pix"
          /\ last.io[i - 1].at + 1 # last.entry.offset + 2
    /\ \E i \in RowOffsetReads : last.io[i].row = 1

====
